---- MODULE Spec2Model ----
(***************************************************************************)
(* A model of dbmeta (src/dbmeta/db.py): the TableQuery relational         *)
(* pipeline, the WHERE/HAVING expression tokenizer, the shunting-yard      *)
(* compiler, the postfix evaluator and SQLParserAdvanced.run.              *)
(*                                                                         *)
(* Python values are tagged records [t, n, d, s, l, r]:                    *)
(*   t = "null" | "bool" | "int" | "float" | "str" | "list" | "tuple"      *)
(*       | "rows"                                                          *)
(*   n, d = the number n/d of an int or finite float (d = 1 for an int),   *)
(*       0/1 of a bool                                                     *)
(*   s = the characters of a str (a sequence of one-character strings);    *)
(*       on a float, <<>> when finite, else "inf" or "nan"                 *)
(*   l = the elements of a list or tuple (a sequence of scalar values)     *)
(*   r = the dicts of a list of rows (the _rows of a group record)         *)
(* A row (a dict) is a function from column names (character sequences)    *)
(* to values.  Texts are sequences of characters over AsciiOrder; the      *)
(* alphabet has no ".", no "+" and no "-", so every numeric literal of an  *)
(* expression is a non-negative int.                                       *)
(***************************************************************************)
EXTENDS Integers, Sequences, FiniteSets, TLC

----------------------------------------------------------------------------
\* F(v) with v evaluated once, before F is applied to it
Bind(v, F(_)) == CHOOSE r \in {F(x) : x \in {v}} : TRUE

----------------------------------------------------------------------------
(* Python values *)

Val(t, n, d, s, l, r) == [t |-> t, n |-> n, d |-> d, s |-> s, l |-> l, r |-> r]
Null == Val("null", 0, 1, <<>>, <<>>, <<>>)
PyBool(b) == Val("bool", IF b THEN 1 ELSE 0, 1, <<>>, <<>>, <<>>)
PyInt(k) == Val("int", k, 1, <<>>, <<>>, <<>>)
PyFloat(k) == Val("float", k, 1, <<>>, <<>>, <<>>)
PyInf == Val("float", 0, 1, <<"i", "n", "f">>, <<>>, <<>>)
PyNan == Val("float", 0, 1, <<"n", "a", "n">>, <<>>, <<>>)
PyStr(cs) == Val("str", 0, 1, cs, <<>>, <<>>)
PyList(vs) == Val("list", 0, 1, <<>>, vs, <<>>)
PyTuple(vs) == Val("tuple", 0, 1, <<>>, vs, <<>>)
PyRows(rs) == Val("rows", 0, 1, <<>>, <<>>, rs)

RECURSIVE Gcd(_, _)
Gcd(a, b) == IF b = 0 THEN a ELSE Bind(a % b, LAMBDA m : Gcd(b, m))

\* The float k / m for an int k and m > 0, in lowest terms
PyRatio(k, m) ==
    Bind(Gcd(IF k < 0 THEN -k ELSE k, m), LAMBDA g :
      Val("float", k \div g, m \div g, <<>>, <<>>, <<>>))

\* isinstance(v, (int, float)): bool is a subclass of int
IsNumber(v) == v.t \in {"int", "bool", "float"}
IsStr(v) == v.t = "str"
IsSeq(v) == v.t \in {"list", "tuple"}
IsNan(v) == v.t = "float" /\ v.s = <<"n", "a", "n">>
IsInf(v) == v.t = "float" /\ v.s = <<"i", "n", "f">>

\* a == b and a < b on numbers
NumEq(a, b) ==
    /\ ~IsNan(a) /\ ~IsNan(b)
    /\ IsInf(a) = IsInf(b)
    /\ IsInf(a) \/ a.n * b.d = b.n * a.d
NumLt(a, b) ==
    /\ ~IsNan(a) /\ ~IsNan(b)
    /\ ~IsInf(a)
    /\ IsInf(b) \/ a.n * b.d < b.n * a.d

\* bool(v)
Truthy(v) ==
    CASE v.t = "null" -> FALSE
      [] v.t \in {"bool", "int"} -> v.n # 0
      [] v.t = "float" -> v.n # 0 \/ v.s # <<>>
      [] v.t = "str" -> v.s # <<>>
      [] v.t = "rows" -> v.r # <<>>
      [] OTHER -> v.l # <<>>

\* a == b on scalars
ScalarEq(a, b) ==
    CASE IsNumber(a) /\ IsNumber(b) -> NumEq(a, b)
      [] IsStr(a) /\ IsStr(b) -> a.s = b.s
      [] a.t = "null" /\ b.t = "null" -> TRUE
      [] OTHER -> FALSE

\* a == b on dicts of scalars
DictEq(x, y) ==
    /\ DOMAIN x = DOMAIN y
    /\ \A c \in DOMAIN x : ScalarEq(x[c], y[c])

\* a == b
PyEq(a, b) ==
    IF IsSeq(a) \/ IsSeq(b)
    THEN /\ a.t = b.t
         /\ Len(a.l) = Len(b.l)
         /\ \A i \in 1..Len(a.l) : ScalarEq(a.l[i], b.l[i])
    ELSE IF a.t = "rows" \/ b.t = "rows"
    THEN /\ a.t = b.t
         /\ Len(a.r) = Len(b.r)
         /\ \A i \in 1..Len(a.r) : DictEq(a.r[i], b.r[i])
    ELSE ScalarEq(a, b)

\* The characters of the model, in ASCII order; Ord(c) orders them as ord() does.
AsciiOrder ==
    << " ", "!", "\"", "'", "(", ")", "*", ",",
       "0", "1", "2", "3", "4", "5", "6", "7", "8", "9",
       "<", "=", ">",
       "A", "B", "C", "D", "E", "F", "G", "H", "I", "J", "K", "L", "M",
       "N", "O", "P", "Q", "R", "S", "T", "U", "V", "W", "X", "Y", "Z",
       "\\", "_",
       "a", "b", "c", "d", "e", "f", "g", "h", "i", "j", "k", "l", "m",
       "n", "o", "p", "q", "r", "s", "t", "u", "v", "w", "x", "y", "z" >>

Ord(c) == CHOOSE i \in 1..Len(AsciiOrder) : AsciiOrder[i] = c

IsDigit(c) == Ord(c) \in 9..18
IsUpper(c) == Ord(c) \in 22..47
IsLower(c) == Ord(c) \in 50..75
DigitVal(c) == Ord(c) - 9

\* str.lower(), character by character
LowerChar(c) == IF IsUpper(c) THEN AsciiOrder[Ord(c) + 28] ELSE c
LowerStr(cs) == [i \in 1..Len(cs) |-> LowerChar(cs[i])]
\* str.upper()
UpperChar(c) == IF IsLower(c) THEN AsciiOrder[Ord(c) - 28] ELSE c
UpperStr(cs) == [i \in 1..Len(cs) |-> UpperChar(cs[i])]

\* s[i:i+k] with 1-based i, clipped at the end as a Python slice is
Slice(cs, i, k) ==
    IF i > Len(cs) THEN <<>>
    ELSE SubSeq(cs, i, IF i + k - 1 > Len(cs) THEN Len(cs) ELSE i + k - 1)

\* needle in hay, for strings
IsSubstring(needle, hay) ==
    \E i \in 1..(Len(hay) + 1) : Slice(hay, i, Len(needle)) = needle

\* a < b on strings: lexicographic by ord()
StrLt(a, b) ==
    \/ /\ Len(a) < Len(b)
       /\ SubSeq(b, 1, Len(a)) = a
    \/ \E i \in 1..Len(a) :
          /\ i <= Len(b)
          /\ SubSeq(a, 1, i - 1) = SubSeq(b, 1, i - 1)
          /\ Ord(a[i]) < Ord(b[i])

\* Whether a < b is defined on scalars; Python raises TypeError otherwise
ScalarOrderable(a, b) ==
    \/ IsNumber(a) /\ IsNumber(b)
    \/ IsStr(a) /\ IsStr(b)

ScalarLt(a, b) == IF IsNumber(a) THEN NumLt(a, b) ELSE StrLt(a.s, b.s)

\* The first index at which two sequences differ under ==, or 0
FirstDiff(x, y) ==
    LET m == IF Len(x) < Len(y) THEN Len(x) ELSE Len(y)
        d == {i \in 1..m : ~ScalarEq(x[i], y[i])}
    IN IF d = {} THEN 0 ELSE CHOOSE i \in d : \A j \in d : i <= j

\* The same for two lists of dicts
FirstDiffRows(x, y) ==
    LET m == IF Len(x) < Len(y) THEN Len(x) ELSE Len(y)
        d == {i \in 1..m : ~DictEq(x[i], y[i])}
    IN IF d = {} THEN 0 ELSE CHOOSE i \in d : \A j \in d : i <= j

\* Whether a < b is defined (no TypeError); dicts are never orderable
Orderable(a, b) ==
    IF IsSeq(a) \/ IsSeq(b)
    THEN /\ a.t = b.t
         /\ LET i == FirstDiff(a.l, b.l)
            IN i = 0 \/ ScalarOrderable(a.l[i], b.l[i])
    ELSE IF a.t = "rows" \/ b.t = "rows"
    THEN a.t = b.t /\ FirstDiffRows(a.r, b.r) = 0
    ELSE ScalarOrderable(a, b)

\* a < b where Orderable(a, b)
PyLt(a, b) ==
    IF IsSeq(a)
    THEN LET i == FirstDiff(a.l, b.l)
         IN IF i = 0 THEN Len(a.l) < Len(b.l) ELSE ScalarLt(a.l[i], b.l[i])
    ELSE IF a.t = "rows" THEN Len(a.r) < Len(b.r)
    ELSE ScalarLt(a, b)

\* dict.get(col): the row's value, None when the column is absent
Get(row, col) == IF col \in DOMAIN row THEN row[col] ELSE Null

Reverse(seq) == [i \in 1..Len(seq) |-> seq[Len(seq) + 1 - i]]

----------------------------------------------------------------------------
(* Tokens: Token(type, value); the value of an OP or IDENT token is a str *)

Token(type, value) == [type |-> type, value |-> value]

\* The operator names the tokenizer emits and the compiler ranks
Kw == [and |-> <<"A", "N", "D">>, or |-> <<"O", "R">>, not |-> <<"N", "O", "T">>,
       in |-> <<"I", "N">>, notin |-> <<"N", "O", "T", " ", "I", "N">>,
       contains |-> <<"C", "O", "N", "T", "A", "I", "N", "S">>,
       eq |-> <<"=">>, ne |-> <<"!", "=">>, gt |-> <<">">>, lt |-> <<"<">>,
       ge |-> <<">", "=">>, le |-> <<"<", "=">>]

\* \w of the regular expressions
WordChar(c) == IsDigit(c) \/ IsUpper(c) \/ IsLower(c) \/ c = "_"
\* [A-Za-z0-9_.*]
IdentChar(c) == WordChar(c) \/ c = "*"

\* str.strip()
RECURSIVE LStrip(_, _)
LStrip(cs, chars) ==
    IF cs # <<>> /\ cs[1] \in chars THEN LStrip(Tail(cs), chars) ELSE cs
Strip(cs, chars) == Reverse(LStrip(Reverse(LStrip(cs, chars)), chars))

\* re.match(kw + r"\b", s[i:], re.I) for a keyword kw given in upper case
MatchKw(s, i, kw) ==
    /\ UpperStr(Slice(s, i, Len(kw))) = kw
    /\ \/ i + Len(kw) > Len(s)
       \/ ~WordChar(s[i + Len(kw)])

\* The index of the quote that closes the literal opened at i, Len(s)+1 if none
RECURSIVE StrEnd(_, _, _)
StrEnd(s, j, q) ==
    IF j > Len(s) THEN j
    ELSE IF s[j] = q /\ s[j - 1] # "\\" THEN j
    ELSE StrEnd(s, j + 1, q)

\* The length of the match of [A-Za-z0-9_.*]+ at i
RECURSIVE IdentLen(_, _)
IdentLen(s, i) ==
    IF i <= Len(s) /\ IdentChar(s[i]) THEN 1 + IdentLen(s, i + 1) ELSE 0

\* int(tok) of a string of digits: the value of its first k digits, and of all
RECURSIVE DecValTo(_, _)
DecValTo(cs, k) == IF k = 0 THEN 0 ELSE 10 * DecValTo(cs, k - 1) + DigitVal(cs[k])
DecVal(cs) == DecValTo(cs, Len(cs))

\* str.isdigit(), and ^\d+(\.\d+)?$ over an alphabet without "."
AllDigits(cs) == cs # <<>> /\ \A k \in 1..Len(cs) : IsDigit(cs[k])

\* One iteration of the while loop of _tokenize_expr at position i: the characters
\* consumed and the tokens appended (none for white space), or the lexical error
TokStep(s, i) ==
    LET ch == s[i]
        Emit(k, tk) == [err |-> "none", adv |-> k, toks |-> <<tk>>]
    IN IF ch = " " THEN [err |-> "none", adv |-> 1, toks |-> <<>>]
       ELSE IF ch = "(" THEN Emit(1, Token("LPAREN", PyStr(<<"(">>)))
       ELSE IF ch = ")" THEN Emit(1, Token("RPAREN", PyStr(<<")">>)))
       ELSE IF Slice(s, i, 2) \in {Kw.ge, Kw.le, Kw.ne} THEN Emit(2, Token("OP", PyStr(Slice(s, i, 2))))
       ELSE IF ch \in {"=", ">", "<"} THEN Emit(1, Token("OP", PyStr(<<ch>>)))
       ELSE IF MatchKw(s, i, Kw.and) THEN Emit(3, Token("OP", PyStr(Kw.and)))
       ELSE IF MatchKw(s, i, Kw.or) THEN Emit(2, Token("OP", PyStr(Kw.or)))
       ELSE IF MatchKw(s, i, Kw.not) THEN Emit(3, Token("OP", PyStr(Kw.not)))
       ELSE IF MatchKw(s, i, Kw.contains) THEN Emit(8, Token("OP", PyStr(Kw.contains)))
       ELSE IF MatchKw(s, i, Kw.in) THEN Emit(2, Token("OP", PyStr(Kw.in)))
       ELSE IF ch \in {"'", "\""}
       THEN LET j == StrEnd(s, i + 1, ch)
            IN Emit(j + 1 - i, Token("LITERAL", PyStr(SubSeq(s, i + 1, j - 1))))
       ELSE IF IdentChar(ch)
       THEN LET k == IdentLen(s, i)
                tok == SubSeq(s, i, i + k - 1)
            IN IF AllDigits(tok) THEN Emit(k, Token("LITERAL", PyInt(DecVal(tok))))
               ELSE Emit(k, Token("IDENT", PyStr(tok)))
       ELSE IF ch = "," THEN Emit(1, Token("COMMA", PyStr(<<",">>)))
       ELSE [err |-> "ValueError", adv |-> 0, toks |-> <<>>]

\* The while loop of _tokenize_expr from position i with the tokens so far
RECURSIVE TokLoop(_, _, _)
TokLoop(s, i, tokens) ==
    IF i > Len(s) THEN [err |-> "none", tokens |-> tokens]
    ELSE Bind(TokStep(s, i), LAMBDA st :
           IF st.err # "none" THEN [err |-> st.err, tokens |-> <<>>]
           ELSE TokLoop(s, i + st.adv, tokens \o st.toks))

\* _tokenize_expr(text)
Tokenize(text) == Bind(Strip(text, {" "}), LAMBDA s : TokLoop(s, 1, <<>>))

----------------------------------------------------------------------------
(* Shunting-yard: _to_rpn *)

\* A precedence table in which OR ranks with AND
PrecOrAsAnd(op) ==
    CASE op = Kw.not -> 5
      [] op \in {Kw.contains, Kw.in, Kw.notin, Kw.eq, Kw.ne, Kw.gt, Kw.lt, Kw.ge, Kw.le} -> 4
      [] op \in {Kw.and, Kw.or} -> 2
      [] OTHER -> 0

\* prec.get(op, 0)
Prec(op) ==
    CASE op = Kw.not -> 5
      [] op \in {Kw.contains, Kw.in, Kw.notin, Kw.eq, Kw.ne, Kw.gt, Kw.lt, Kw.ge, Kw.le} -> 4
      [] op = Kw.and -> 2
      [] op = Kw.or -> 1
      [] OTHER -> 0

\* while opstack and opstack[-1].type == "OP" and prec(opstack[-1]) >= p (> p when
\* strict): out.append(opstack.pop()).  The loop pops the longest run of such
\* operators at the top of the stack.
PopOps(out, opstack, p, strict) ==
    LET n == Len(opstack)
        Pops(k) == /\ opstack[k].type = "OP"
                   /\ IF strict THEN Prec(opstack[k].value.s) > p
                                ELSE Prec(opstack[k].value.s) >= p
        \* the lowest index from which every entry up to the top is popped
        from == CHOOSE f \in 1..(n + 1) :
                   /\ \A k \in f..n : Pops(k)
                   /\ f = 1 \/ ~Pops(f - 1)
    IN Bind(from, LAMBDA f :
         [out |-> out \o Reverse(SubSeq(opstack, f, n)),
          opstack |-> SubSeq(opstack, 1, f - 1)])

\* ''.join(parts) of str values
RECURSIVE JoinStr(_)
JoinStr(parts) == IF parts = <<>> THEN <<>> ELSE parts[1].s \o JoinStr(Tail(parts))

\* current[0].value if len(current) == 1 else ''.join(c.value for c in current);
\* str.join raises TypeError on an item that is not a str
ListItem(current) ==
    IF Len(current) = 1 THEN [err |-> "none", v |-> current[1].value]
    ELSE IF \A k \in 1..Len(current) : IsStr(current[k].value)
    THEN [err |-> "none",
          v |-> PyStr(JoinStr([k \in 1..Len(current) |-> current[k].value]))]
    ELSE [err |-> "TypeError", v |-> Null]

\* The scan of the IN list from token j: the values read, the index the scan stops
\* at (that of the closing RPAREN, or len(tokens) when there is none)
RECURSIVE InScan(_, _, _, _)
InScan(tokens, j, vals, current) ==
    IF j > Len(tokens) THEN [err |-> "none", vals |-> vals, j |-> j]
    ELSE IF tokens[j].type \in {"RPAREN", "COMMA"}
    THEN LET it == ListItem(current)
             vals2 == IF current = <<>> THEN vals ELSE Append(vals, it.v)
         IN IF current # <<>> /\ it.err # "none"
            THEN [err |-> it.err, vals |-> vals, j |-> j]
            ELSE IF tokens[j].type = "RPAREN"
            THEN [err |-> "none", vals |-> vals2, j |-> j]
            ELSE InScan(tokens, j + 1, vals2, <<>>)
    ELSE InScan(tokens, j + 1, vals, Append(current, tokens[j]))

\* str.strip("'\"")

\* The digits of a float literal: digits, single underscores between them
DigitPart(cs) ==
    /\ cs # <<>>
    /\ IsDigit(cs[1]) /\ IsDigit(cs[Len(cs)])
    /\ \A k \in 1..Len(cs) : IsDigit(cs[k]) \/ cs[k] = "_"
    /\ \A k \in 1..(Len(cs) - 1) : ~(cs[k] = "_" /\ cs[k + 1] = "_")
DigitPartVal(cs) == DecVal(SelectSeq(cs, IsDigit))

RECURSIVE Pow10(_)
Pow10(e) == IF e = 0 THEN 1 ELSE 10 * Pow10(e - 1)

\* float(s) over the alphabet (no sign, no "."): the value, or err when it raises
ParseFloat(s0) ==
    LET s == Strip(s0, {" "})
        es == {k \in 2..(Len(s) - 1) :
                 /\ s[k] \in {"e", "E"}
                 /\ DigitPart(SubSeq(s, 1, k - 1))
                 /\ DigitPart(SubSeq(s, k + 1, Len(s)))}
    IN IF UpperStr(s) \in {<<"I", "N", "F">>, <<"I", "N", "F", "I", "N", "I", "T", "Y">>}
       THEN [err |-> "none", v |-> PyInf]
       ELSE IF UpperStr(s) = <<"N", "A", "N">> THEN [err |-> "none", v |-> PyNan]
       ELSE IF DigitPart(s) THEN [err |-> "none", v |-> PyFloat(DigitPartVal(s))]
       ELSE IF es # {}
       THEN LET k == CHOOSE k \in es : TRUE
            IN [err |-> "none",
                v |-> PyFloat(DigitPartVal(SubSeq(s, 1, k - 1))
                              * Pow10(DigitPartVal(SubSeq(s, k + 1, Len(s)))))]
       ELSE [err |-> "ValueError", v |-> Null]

\* One element of parsed_vals: numbers kept, numeric-looking text made a number
CoerceItem(it) ==
    IF it.t \in {"int", "float", "bool"} THEN it
    ELSE LET s == Strip(it.s, {"'", "\""})
         IN IF AllDigits(s) THEN PyInt(DecVal(s))
            ELSE IF ParseFloat(s).err = "none" THEN ParseFloat(s).v
            ELSE PyStr(s)

\* The branch of _to_rpn for the operator IN at token i
\* (the tail of the loop is passed back to RpnLoop by its caller)
InBranch(tokens, i, out, opstack) ==
    IF i + 1 > Len(tokens) \/ tokens[i + 1].type # "LPAREN"
    THEN [err |-> "ValueError", i |-> i, out |-> out, opstack |-> opstack]
    ELSE Bind(InScan(tokens, i + 2, <<>>, <<>>), LAMBDA sc :
           IF sc.err # "none"
           THEN [err |-> sc.err, i |-> i, out |-> out, opstack |-> opstack]
           ELSE LET lit == Token("LITERAL",
                                 PyList([k \in 1..Len(sc.vals) |-> CoerceItem(sc.vals[k])]))
                IN Bind(PopOps(Append(out, lit), opstack, Prec(Kw.in), FALSE), LAMBDA po :
                     [err |-> "none", i |-> sc.j + 1, out |-> po.out,
                      opstack |-> Append(po.opstack, Token("OP", PyStr(Kw.in)))]))

\* The final loop: pop the remaining operators; a parenthesis left is an error
DrainOps(out, opstack) ==
    IF \E k \in 1..Len(opstack) : opstack[k].type \in {"LPAREN", "RPAREN"}
    THEN [err |-> "ValueError", rpn |-> <<>>]
    ELSE [err |-> "none", rpn |-> out \o Reverse(opstack)]

\* One iteration of the main while loop of _to_rpn at token i: the next i and
\* the two stacks, or the error raised
RpnStep(tokens, i, out, opstack) ==
    LET tk == tokens[i]
        Go(o, s) == [err |-> "none", i |-> i + 1, out |-> o, opstack |-> s]
    IN IF tk.type \in {"LITERAL", "IDENT"} THEN Go(Append(out, tk), opstack)
       ELSE IF tk.type = "OP" /\ tk.value.s = Kw.not
       THEN Bind(PopOps(out, opstack, Prec(Kw.not), TRUE), LAMBDA po :
              Go(po.out, Append(po.opstack, tk)))
       ELSE IF tk.type = "OP" /\ UpperStr(tk.value.s) = Kw.in
       THEN InBranch(tokens, i, out, opstack)
       ELSE IF tk.type = "OP"
       THEN Bind(PopOps(out, opstack, Prec(tk.value.s), FALSE), LAMBDA po :
              Go(po.out, Append(po.opstack, tk)))
       ELSE IF tk.type = "LPAREN" THEN Go(out, Append(opstack, tk))
       ELSE IF tk.type = "RPAREN"
       THEN Bind(PopOps(out, opstack, 0, FALSE), LAMBDA po :
              IF po.opstack = <<>>
              THEN [err |-> "ValueError", i |-> i, out |-> out, opstack |-> opstack]
              ELSE Go(po.out, SubSeq(po.opstack, 1, Len(po.opstack) - 1)))
       ELSE Go(out, opstack)

\* The main while loop of _to_rpn from token i, then the final loop
RECURSIVE RpnLoop(_, _, _, _)
RpnLoop(tokens, i, out, opstack) ==
    IF i > Len(tokens) THEN DrainOps(out, opstack)
    ELSE Bind(RpnStep(tokens, i, out, opstack), LAMBDA st :
           IF st.err # "none" THEN [err |-> st.err, rpn |-> <<>>]
           ELSE RpnLoop(tokens, st.i, st.out, st.opstack))

\* _to_rpn(tokens): the postfix sequence, OP values upper-cased
ToRpn(tokens) ==
    Bind(RpnLoop(tokens, 1, <<>>, <<>>), LAMBDA r :
      [err |-> r.err,
       rpn |-> [k \in 1..Len(r.rpn) |->
                  IF r.rpn[k].type = "OP"
                  THEN Token("OP", PyStr(UpperStr(r.rpn[k].value.s)))
                  ELSE r.rpn[k]]])

\* _parse_boolean_expression(text)
ParseBooleanExpression(text) ==
    Bind(Tokenize(text), LAMBDA tk :
      IF tk.err # "none" THEN [err |-> tk.err, rpn |-> <<>>] ELSE ToRpn(tk.tokens))

----------------------------------------------------------------------------
(* Postfix evaluation: _apply_filter_expr.eval_row *)

\* a <= b where Orderable(a, b)
PyLe(a, b) == PyLt(a, b) \/ PyEq(a, b)

\* The comparison operators; an exception inside the try block gives False
Compare(op, a, b) ==
    CASE op = Kw.eq -> PyEq(a, b)
      [] op = Kw.ne -> ~PyEq(a, b)
      [] op = Kw.gt -> a.t # "null" /\ b.t # "null" /\ Orderable(a, b) /\ PyLt(b, a)
      [] op = Kw.lt -> a.t # "null" /\ b.t # "null" /\ Orderable(a, b) /\ PyLt(a, b)
      [] op = Kw.ge -> a.t # "null" /\ b.t # "null" /\ Orderable(a, b) /\ PyLe(b, a)
      [] OTHER -> a.t # "null" /\ b.t # "null" /\ Orderable(a, b) /\ PyLe(a, b)

\* a in b: membership in a list, substring of a str, TypeError otherwise
PyIn(a, b) ==
    CASE IsSeq(b) -> [err |-> "none", v |-> \E k \in 1..Len(b.l) : PyEq(a, b.l[k])]
      [] b.t = "rows" -> [err |-> "none", v |-> FALSE]
      [] b.t = "str" /\ a.t = "str" -> [err |-> "none", v |-> IsSubstring(a.s, b.s)]
      [] OTHER -> [err |-> "TypeError", v |-> FALSE]

\* The effect of one OP token on the operand stack
EvalOp(op, stack) ==
    LET n == Len(stack)
        need == IF op = Kw.not THEN 1 ELSE 2
        b == stack[n]
        a == stack[n - 1]
        rest == SubSeq(stack, 1, n - need)
        Push(v) == [err |-> "none", stack |-> Append(rest, PyBool(v))]
        Raise(e) == [err |-> e, stack |-> stack]
    IN IF op \notin {Kw.eq, Kw.ne, Kw.gt, Kw.lt, Kw.ge, Kw.le, Kw.contains, Kw.in, Kw.notin, Kw.and, Kw.or, Kw.not}
       THEN Raise("ValueError")
       ELSE IF n < need THEN Raise("IndexError")
       ELSE IF op \in {Kw.eq, Kw.ne, Kw.gt, Kw.lt, Kw.ge, Kw.le} THEN Push(Compare(op, a, b))
       ELSE IF op = Kw.contains
       THEN Push(IsStr(a) /\ IsStr(b) /\ IsSubstring(LowerStr(b.s), LowerStr(a.s)))
       ELSE IF op = Kw.in
       THEN IF b.t = "null" THEN Push(FALSE)
            ELSE IF PyIn(a, b).err # "none" THEN Raise(PyIn(a, b).err)
            ELSE Push(PyIn(a, b).v)
       ELSE IF op = Kw.notin
       THEN IF PyIn(a, b).err # "none" THEN Raise(PyIn(a, b).err)
            ELSE Push(~PyIn(a, b).v)
       ELSE IF op = Kw.and THEN Push(Truthy(a) /\ Truthy(b))
       ELSE IF op = Kw.or THEN Push(Truthy(a) \/ Truthy(b))
       ELSE Push(~Truthy(b))

\* The for loop of eval_row from token k
RECURSIVE EvalLoop(_, _, _, _)
EvalLoop(rpn, k, stack, row) ==
    IF k > Len(rpn)
    THEN [err |-> "none", v |-> IF stack = <<>> THEN FALSE ELSE Truthy(stack[Len(stack)])]
    ELSE LET tk == rpn[k] IN
      IF tk.type = "LITERAL"
      THEN Bind(Append(stack, tk.value), LAMBDA st : EvalLoop(rpn, k + 1, st, row))
      ELSE IF tk.type = "IDENT"
           THEN Bind(Append(stack, Get(row, tk.value.s)), LAMBDA st :
                  EvalLoop(rpn, k + 1, st, row))
      ELSE IF tk.type = "OP"
           THEN Bind(EvalOp(tk.value.s, stack), LAMBDA r :
                  IF r.err # "none" THEN [err |-> r.err, v |-> FALSE]
                  ELSE EvalLoop(rpn, k + 1, r.stack, row))
      ELSE [err |-> "ValueError", v |-> FALSE]

\* eval_row(row) for the compiled expression rpn
EvalRow(rpn, row) == EvalLoop(rpn, 1, <<>>, row)

----------------------------------------------------------------------------
(* TableQuery: the relational operators on a sequence of rows.  A predicate *)
(* is [col, op, val] with op the operator's Python string.                  *)

\* not (isinstance(v, (int, float)) and v <op> val) for op in >, <, >=, <=:
\* "pass" when the comparison holds, "fail" when check returns False, or the
\* exception the comparison raises
OrderCond(v, op, val) ==
    IF ~IsNumber(v) THEN "fail"
    ELSE IF ~Orderable(v, val) THEN "TypeError"
    ELSE IF CASE op = ">" -> PyLt(val, v)
              [] op = "<" -> PyLt(v, val)
              [] op = ">=" -> PyLe(val, v)
              [] OTHER -> PyLe(v, val)
         THEN "pass" ELSE "fail"

\* One predicate of where's check(row)
WhereCond(row, cond) ==
    LET v == Get(row, cond.col)
        op == cond.op
        val == cond.val
    IN CASE op = "=" -> IF ~PyEq(v, val) THEN "fail" ELSE "pass"
         [] op = "!=" -> IF PyEq(v, val) THEN "fail" ELSE "pass"
         [] op \in {">", "<", ">=", "<="} -> OrderCond(v, op, val)
         [] op = "contains" ->
              IF ~IsStr(v) THEN "fail"
              ELSE IF ~IsStr(val) THEN "AttributeError"
              ELSE IF IsSubstring(LowerStr(val.s), LowerStr(v.s)) THEN "pass" ELSE "fail"
         [] op = "in" ->
              IF PyIn(v, val).err # "none" THEN PyIn(v, val).err
              ELSE IF ~PyIn(v, val).v THEN "fail" ELSE "pass"
         [] op = "not in" ->
              IF PyIn(v, val).err # "none" THEN PyIn(v, val).err
              ELSE IF PyIn(v, val).v THEN "fail" ELSE "pass"
         [] OTHER -> "fail"

\* One predicate of having's check(row)
HavingCond(row, cond) ==
    LET v == Get(row, cond.col)
        op == cond.op
        val == cond.val
    IN CASE op = "=" -> IF ~PyEq(v, val) THEN "fail" ELSE "pass"
         [] op = "!=" -> IF PyEq(v, val) THEN "fail" ELSE "pass"
         [] op \in {">", "<", ">=", "<="} -> OrderCond(v, op, val)
         [] OTHER -> "fail"

\* check(row): the predicates in order, stopping at the first that fails or raises;
\* "pass" is check returning True
RECURSIVE WhereCheck(_, _)
WhereCheck(row, conds) ==
    IF conds = <<>> THEN "pass"
    ELSE IF WhereCond(row, conds[1]) # "pass" THEN WhereCond(row, conds[1])
    ELSE WhereCheck(row, Tail(conds))

RECURSIVE HavingCheck(_, _)
HavingCheck(row, conds) ==
    IF conds = <<>> THEN "pass"
    ELSE IF HavingCond(row, conds[1]) # "pass" THEN HavingCond(row, conds[1])
    ELSE HavingCheck(row, Tail(conds))

\* [r for r in rows if check(r)] given each row's check result: the first row
\* whose check raises aborts the comprehension
Comprehension(rows, res) ==
    LET bad == {k \in 1..Len(rows) : res[k] \notin {"pass", "fail"}}
        keep == {k \in 1..Len(rows) : res[k] = "pass"}
    IN IF bad # {}
       THEN [err |-> res[CHOOSE k \in bad : \A j \in bad : k <= j], rows |-> <<>>]
       ELSE [err |-> "none",
             rows |-> [i \in 1..Cardinality(keep) |->
                         rows[CHOOSE k \in keep :
                                Cardinality({j \in keep : j <= k}) = i]]]

\* where with its comprehension over self.rows[1:]
WhereSkipsFirst(rows, conds) ==
    Comprehension(Tail(rows), [k \in 1..(Len(rows) - 1) |-> WhereCheck(rows[k + 1], conds)])

\* where(*conditions) on the rows of self
Where(rows, conds) ==
    Comprehension(rows, [k \in 1..Len(rows) |-> WhereCheck(rows[k], conds)])

\* having(*conditions) on the rows of self
Having(rows, conds) ==
    Comprehension(rows, [k \in 1..Len(rows) |-> HavingCheck(rows[k], conds)])

\* select(*cols): {c: r.get(c) for c in cols} for every row
Select(rows, cols) ==
    [k \in 1..Len(rows) |->
       [c \in {cols[i] : i \in 1..Len(cols)} |-> Get(rows[k], c)]]

\* rows[:n], n of either sign
Limit(rows, n) ==
    LET m == IF n >= 0 THEN n ELSE Len(rows) + n
    IN IF m <= 0 THEN <<>> ELSE SubSeq(rows, 1, IF m > Len(rows) THEN Len(rows) ELSE m)

\* join with merged = dict(r); merged.update(l): the left row's value wins
RECURSIVE JoinOneLeftWins(_, _, _)
JoinOneLeftWins(l, rights, on) ==
    IF rights = <<>> THEN <<>>
    ELSE (IF PyEq(Get(rights[1], on), Get(l, on)) THEN <<l @@ rights[1]>> ELSE <<>>)
         \o JoinOneLeftWins(l, Tail(rights), on)

\* merged = dict(l); merged.update(r): the right row's value wins
\* The rows join appends for one left row
RECURSIVE JoinOne(_, _, _)
JoinOne(l, rights, on) ==
    IF rights = <<>> THEN <<>>
    ELSE (IF PyEq(Get(rights[1], on), Get(l, on)) THEN <<rights[1] @@ l>> ELSE <<>>)
         \o JoinOne(l, Tail(rights), on)

\* join(other, on): nested loops, left-major
RECURSIVE Join(_, _, _)
Join(lefts, rights, on) ==
    IF lefts = <<>> THEN <<>>
    ELSE JoinOne(lefts[1], rights, on) \o Join(Tail(lefts), rights, on)

\* multi_join(tables, on): the fold of join over the tables' rows
RECURSIVE MultiJoin(_, _, _)
MultiJoin(rows, tables, on) ==
    IF tables = <<>> THEN rows
    ELSE Bind(Join(rows, tables[1], on), LAMBDA joined :
           MultiJoin(joined, Tail(tables), on))

----------------------------------------------------------------------------
(* sorted(rows, key=lambda r: r.get(col), reverse=desc): the list sort of    *)
(* CPython on fewer than 64 items, which takes the leading run and inserts   *)
(* the rest by binary insertion; a comparison of unorderable keys raises     *)
(* TypeError out of the sort                                                 *)

\* key(x) < key(y), or the TypeError
IsLt(x, y, col) ==
    IF Orderable(Get(x, col), Get(y, col))
    THEN [err |-> "none", v |-> PyLt(Get(x, col), Get(y, col))]
    ELSE [err |-> "TypeError", v |-> FALSE]

\* count_run: the length of the run that starts the list, extended from item k
RECURSIVE RunLen(_, _, _, _)
RunLen(xs, k, desc, col) ==
    IF k > Len(xs) THEN [err |-> "none", n |-> k - 1]
    ELSE IF IsLt(xs[k], xs[k - 1], col).err # "none"
    THEN [err |-> IsLt(xs[k], xs[k - 1], col).err, n |-> 0]
    ELSE IF IsLt(xs[k], xs[k - 1], col).v = desc THEN RunLen(xs, k + 1, desc, col)
    ELSE [err |-> "none", n |-> k - 1]

\* binarysort's search for the place of pivot in the sorted items, between the
\* 0-based bounds lo and hi (lo < hi)
RECURSIVE BinSearch(_, _, _, _, _)
BinSearch(sorted, pivot, lo, hi, col) ==
    Bind(lo + ((hi - lo) \div 2), LAMBDA p :
      Bind(IsLt(pivot, sorted[p + 1], col), LAMBDA c :
        IF c.err # "none" THEN [err |-> c.err, pos |-> 0]
        ELSE IF c.v
        THEN IF lo < p THEN BinSearch(sorted, pivot, lo, p, col)
             ELSE [err |-> "none", pos |-> lo]
        ELSE IF p + 1 < hi THEN BinSearch(sorted, pivot, p + 1, hi, col)
             ELSE [err |-> "none", pos |-> p + 1]))

\* binarysort: insert the items of rest, in order, into the sorted items
RECURSIVE BinarySort(_, _, _)
BinarySort(sorted, rest, col) ==
    IF rest = <<>> THEN [err |-> "none", rows |-> sorted]
    ELSE Bind(BinSearch(sorted, rest[1], 0, Len(sorted), col), LAMBDA b :
           IF b.err # "none" THEN [err |-> b.err, rows |-> <<>>]
           ELSE Bind(SubSeq(sorted, 1, b.pos) \o <<rest[1]>>
                       \o SubSeq(sorted, b.pos + 1, Len(sorted)),
                     LAMBDA placed : BinarySort(placed, Tail(rest), col)))

\* list.sort on the keys of col, ascending
ListSort(xs, col) ==
    IF Len(xs) < 2 THEN [err |-> "none", rows |-> xs]
    ELSE Bind(IsLt(xs[2], xs[1], col), LAMBDA first :
           IF first.err # "none" THEN [err |-> first.err, rows |-> <<>>]
           ELSE Bind(RunLen(xs, 3, first.v, col), LAMBDA run :
                  IF run.err # "none" THEN [err |-> run.err, rows |-> <<>>]
                  ELSE Bind(SubSeq(xs, 1, run.n), LAMBDA head :
                         BinarySort(IF first.v THEN Reverse(head) ELSE head,
                                    SubSeq(xs, run.n + 1, Len(xs)), col))))

\* A sort that gives the rows in reverse when it is descending and a
\* comparison raises (the list reversed in place before the sort)
SortedLeftReversed(rows, col, desc) ==
    Bind(IF desc THEN Reverse(rows) ELSE rows, LAMBDA xs :
      Bind(ListSort(xs, col), LAMBDA r :
        IF r.err # "none" THEN [err |-> "none", rows |-> xs]
        ELSE [err |-> "none", rows |-> IF desc THEN Reverse(r.rows) ELSE r.rows]))

\* sorted(rows, key, reverse): reverse=True reverses before and after the sort,
\* which keeps equal keys in their order
Sorted(rows, col, desc) ==
    Bind(IF desc THEN Reverse(rows) ELSE rows, LAMBDA xs :
      Bind(ListSort(xs, col), LAMBDA r :
        IF r.err # "none" THEN r
        ELSE [err |-> "none", rows |-> IF desc THEN Reverse(r.rows) ELSE r.rows]))

----------------------------------------------------------------------------
(* group_by *)

\* The keys of a group record, and the column names of the registry's tables
Col == [GroupKey |-> <<"_", "g", "r", "o", "u", "p", "_", "k", "e", "y">>,
        Rows |-> <<"_", "r", "o", "w", "s">>,
        COUNT |-> <<"C", "O", "U", "N", "T">>,
        SUM |-> <<"S", "U", "M", "_">>, MIN |-> <<"M", "I", "N", "_">>,
        MAX |-> <<"M", "A", "X", "_">>, AVG |-> <<"A", "V", "G", "_">>,
        iid |-> <<"i", "i", "d">>, id |-> <<"i", "d">>, amt |-> <<"a", "m", "t">>, name |-> <<"n", "a", "m", "e">>,
        tag |-> <<"t", "a", "g">>, path |-> <<"p", "a", "t", "h">>]

\* tuple(r.get(c) for c in cols)
KeyOf(row, cols) == [i \in 1..Len(cols) |-> Get(row, cols[i])]

\* Equality of two key tuples, as the dict of groups compares them
KeyEq(k1, k2) == \A i \in 1..Len(k1) : PyEq(k1[i], k2[i])

\* A list is unhashable, so a key tuple holding one raises TypeError
Hashable(key) == \A i \in 1..Len(key) : key[i].t \notin {"list", "rows"}

\* a + b on numbers: an int unless one of them is a float
NumAdd(a0, b0) ==
  Bind(<<a0, b0>>, LAMBDA ab : LET a == ab[1] b == ab[2] IN
    IF IsNan(a) \/ IsNan(b) THEN PyNan
    ELSE IF IsInf(a) \/ IsInf(b) THEN PyInf
    ELSE IF a.t = "float" \/ b.t = "float"
    THEN PyRatio(a.n * b.d + b.n * a.d, a.d * b.d)
    ELSE PyInt(a.n + b.n))

\* sum(vals), starting from the int 0: the sum of the first k, and of all
RECURSIVE SumTo(_, _)
SumTo(vals, k) == IF k = 0 THEN PyInt(0) ELSE NumAdd(SumTo(vals, k - 1), vals[k])
SumVals(vals) == SumTo(vals, Len(vals))

\* min(vals) and max(vals): the first of the least, the first of the greatest
RECURSIVE MinTo(_, _)
MinTo(vals, k) ==
    IF k = 1 THEN vals[1]
    ELSE Bind(MinTo(vals, k - 1), LAMBDA m : IF NumLt(vals[k], m) THEN vals[k] ELSE m)
MinVals(vals) == MinTo(vals, Len(vals))

RECURSIVE MaxTo(_, _)
MaxTo(vals, k) ==
    IF k = 1 THEN vals[1]
    ELSE Bind(MaxTo(vals, k - 1), LAMBDA m : IF NumLt(m, vals[k]) THEN vals[k] ELSE m)
MaxVals(vals) == MaxTo(vals, Len(vals))

\* sum(vals) / len(vals): true division gives a float
AvgVals(vals) ==
    Bind(SumVals(vals), LAMBDA s :
      IF IsNan(s) \/ IsInf(s) THEN s ELSE PyRatio(s.n, s.d * Len(vals)))

\* The values of col with 0 in the place of a value that is no number
NumericValsOrZero(rows, col) ==
    [k \in 1..Len(rows) |->
       IF IsNumber(Get(rows[k], col)) THEN Get(rows[k], col) ELSE PyInt(0)]

\* [r.get(col) for r in rows if isinstance(r.get(col), (int, float))]
NumericVals(rows, col) ==
    LET F[k \in 0..Len(rows)] ==
          IF k = 0 THEN <<>>
          ELSE IF IsNumber(Get(rows[k], col)) THEN Append(F[k - 1], Get(rows[k], col))
          ELSE F[k - 1]
    IN F[Len(rows)]

\* The group record of one key and its member rows
GroupRecord(key, rows) ==
    LET numeric == {c \in UNION {DOMAIN rows[k] : k \in 1..Len(rows)} :
                      \E k \in 1..Len(rows) : IsNumber(Get(rows[k], c))}
        cols == {Col.GroupKey, Col.Rows, Col.COUNT}
                  \cup {pre \o c : pre \in {Col.SUM, Col.MIN, Col.MAX, Col.AVG}, c \in numeric}
    IN [f \in cols |->
          IF f = Col.GroupKey THEN PyTuple(key)
          ELSE IF f = Col.Rows THEN PyRows(rows)
          ELSE IF f = Col.COUNT THEN PyInt(Len(rows))
          ELSE LET c == SubSeq(f, 5, Len(f))
                   vals == NumericVals(rows, c)
               IN CASE SubSeq(f, 1, 4) = Col.SUM -> SumVals(vals)
                    [] SubSeq(f, 1, 4) = Col.MIN -> MinVals(vals)
                    [] SubSeq(f, 1, 4) = Col.MAX -> MaxVals(vals)
                    [] OTHER -> AvgVals(vals)]

\* group_by(*cols): one group record per distinct key, in first-occurrence order
GroupBy(rows, cols) ==
    LET n == Len(rows)
        key(k) == KeyOf(rows[k], cols)
        \* the rows that open a group: no earlier row has an equal key
        firsts == {k \in 1..n : \A j \in 1..(k - 1) : ~KeyEq(key(j), key(k))}
        members(k) == {j \in 1..n : KeyEq(key(j), key(k))}
        Nth(S, i) == CHOOSE k \in S : Cardinality({j \in S : j <= k}) = i
    IN IF \E k \in 1..n : ~Hashable(key(k))
       THEN [err |-> "TypeError", rows |-> <<>>]
       ELSE [err |-> "none",
             rows |-> [g \in 1..Cardinality(firsts) |->
                         LET f == Nth(firsts, g)
                             ms == members(f)
                         IN GroupRecord(key(f),
                                        [i \in 1..Cardinality(ms) |-> rows[Nth(ms, i)]])]]

----------------------------------------------------------------------------
(* The state.  The heap holds the list objects and the TableQuery objects   *)
(* that are reachable: lists[a] is the row sequence of the list at address  *)
(* a, tqs[q] the address of the list that TableQuery q holds in self.rows.  *)

VARIABLES
    lists,      \* the list objects
    tqs,        \* the TableQuery objects
    call,       \* the last call of the relational API and how it returned
    sq          \* one run(sql_text) of SQLParserAdvanced: its position and locals

vars == <<lists, tqs, call, sq>>


\* The lists of the registry db.tables, as _load built them from the
\* metadata of the folders a, b, c, d: table T, then table U
Registry ==
    << << (Col.iid :> PyStr(<<"a">>) @@ Col.id :> PyInt(1) @@ Col.amt :> PyInt(10)),
          (Col.iid :> PyStr(<<"b">>) @@ Col.id :> PyInt(1) @@ Col.amt :> PyInt(20)),
          (Col.iid :> PyStr(<<"c">>) @@ Col.id :> PyInt(2) @@ Col.amt :> PyInt(5)) >>,
       << (Col.iid :> PyStr(<<"a">>) @@ Col.id :> PyInt(2) @@ Col.name :> PyStr(<<"b">>)
             @@ Col.tag :> PyInt(1) @@ Col.path :> PyList(<<PyInt(1), Null>>)),
          (Col.iid :> PyStr(<<"b">>) @@ Col.id :> PyInt(1) @@ Col.name :> PyStr(<<"A", "b">>)
             @@ Col.tag :> PyStr(<<"a">>) @@ Col.path :> PyList(<<PyNan>>)),
          (Col.iid :> PyStr(<<"c">>) @@ Col.id :> PyInt(1) @@ Col.tag :> Null
             @@ Col.path :> PyList(<<PyInt(1), PyInt(0)>>)),
          (Col.iid :> PyStr(<<"d">>) @@ Col.id :> PyInt(3) @@ Col.path :> PyList(<<PyInt(0)>>)) >> >>

----------------------------------------------------------------------------
(* The relational API: one action per operator of TableQuery *)

MaxCalls == 2

\* The predicate lists, column lists and table lists the calls are made with
Args ==
    [preds |->
       { <<[col |-> Col.amt, op |-> ">", val |-> PyInt(8)]>>,
         <<[col |-> Col.amt, op |-> "<=", val |-> PyStr(<<"a">>)]>>,
         <<[col |-> Col.name, op |-> ">=", val |-> PyInt(1)]>>,
         <<[col |-> Col.name, op |-> "contains", val |-> PyStr(<<"B">>)]>>,
         <<[col |-> Col.id, op |-> "in", val |-> PyList(<<PyInt(1)>>)]>>,
         <<[col |-> Col.tag, op |-> "not in", val |-> PyList(<<PyInt(1), PyStr(<<"a">>)>>)],
           [col |-> Col.id, op |-> "=", val |-> PyInt(1)]>>,
         <<[col |-> Col.id, op |-> "!=", val |-> PyInt(1)],
           [col |-> Col.tag, op |-> "<", val |-> Null]>> },
     select |-> { <<Col.id>>, <<Col.amt, Col.name>> },
     order |-> {Col.id, Col.amt, Col.name, Col.tag, Col.path},
     group |-> { <<Col.id>>, <<Col.id, Col.tag>>, <<Col.amt>>, <<Col.path>> },
     tables |-> { <<>>, <<2>>, <<1, 2>> }]
MaxLimit == 2
MaxJoinRows == 6

\* An operator is called while no query runs (execution is single-threaded)
CanCall == call.n < MaxCalls /\ sq.pc = "idle"

\* return TableQuery(rows) over a list the operator built: both objects are new
ReturnNew(op, self, arg, rows) ==
    /\ lists' = Append(lists, rows)
    /\ tqs' = Append(tqs, Len(lists) + 1)
    /\ call' = [op |-> op, self |-> self, arg |-> arg, ret |-> Len(tqs) + 1,
                err |-> "none", n |-> call.n + 1]

\* The call raises: nothing is returned
Raise(op, self, arg, err) ==
    /\ call' = [op |-> op, self |-> self, arg |-> arg, ret |-> 0,
                err |-> err, n |-> call.n + 1]
    /\ UNCHANGED <<lists, tqs>>

\* where(*conditions)
WhereCall ==
    /\ CanCall
    /\ \E self \in 1..Len(tqs), conds \in Args.preds :
         LET r == Where(lists[tqs[self]], conds)
         IN IF r.err # "none" THEN Raise("where", self, conds, r.err)
            ELSE ReturnNew("where", self, conds, r.rows)
    /\ UNCHANGED sq

\* having(*conditions)
HavingCall ==
    /\ CanCall
    /\ \E self \in 1..Len(tqs), conds \in Args.preds :
         LET r == Having(lists[tqs[self]], conds)
         IN IF r.err # "none" THEN Raise("having", self, conds, r.err)
            ELSE ReturnNew("having", self, conds, r.rows)
    /\ UNCHANGED sq

\* select(*cols)
SelectCall ==
    /\ CanCall
    /\ \E self \in 1..Len(tqs), cols \in Args.select :
         ReturnNew("select", self, cols, Select(lists[tqs[self]], cols))
    /\ UNCHANGED sq

\* order_by(col, desc): a sort that raises is swallowed and self is returned
OrderByCall ==
    /\ CanCall
    /\ \E self \in 1..Len(tqs), col \in Args.order, desc \in BOOLEAN :
         LET r == Sorted(lists[tqs[self]], col, desc)
             arg == [col |-> col, desc |-> desc]
         IN IF r.err # "none"
            THEN /\ call' = [op |-> "order_by", self |-> self, arg |-> arg, ret |-> self,
                             err |-> "none", n |-> call.n + 1]
                 /\ UNCHANGED <<lists, tqs>>
            ELSE ReturnNew("order_by", self, arg, r.rows)
    /\ UNCHANGED sq

\* limit(n)
LimitCall ==
    /\ CanCall
    /\ \E self \in 1..Len(tqs), n \in (-1)..MaxLimit :
         ReturnNew("limit", self, n, Limit(lists[tqs[self]], n))
    /\ UNCHANGED sq

\* join(other, on)
JoinCall ==
    /\ CanCall
    /\ \E self \in 1..Len(tqs), other \in 1..Len(tqs) :
         LET rows == Join(lists[tqs[self]], lists[tqs[other]], Col.id)
         IN /\ Len(rows) <= MaxJoinRows
            /\ ReturnNew("join", self, [other |-> other, on |-> Col.id], rows)
    /\ UNCHANGED sq

\* multi_join(tables, on): joined = TableQuery(self.rows) shares the list of self
\* and is what an empty list of tables returns; every join allocates
MultiJoinCall ==
    /\ CanCall
    /\ \E self \in 1..Len(tqs), tables \in Args.tables :
         LET arg == [tables |-> tables, on |-> Col.id]
             rows == MultiJoin(lists[tqs[self]],
                               [i \in 1..Len(tables) |-> lists[tqs[tables[i]]]], Col.id)
         IN /\ Len(rows) <= MaxJoinRows
            /\ IF tables = <<>>
               THEN /\ tqs' = Append(tqs, tqs[self])
                    /\ call' = [op |-> "multi_join", self |-> self, arg |-> arg,
                                ret |-> Len(tqs) + 1, err |-> "none", n |-> call.n + 1]
                    /\ UNCHANGED lists
               ELSE ReturnNew("multi_join", self, arg, rows)
    /\ UNCHANGED sq

\* group_by(*cols)
GroupByCall ==
    /\ CanCall
    /\ \E self \in 1..Len(tqs), cols \in Args.group :
         LET r == GroupBy(lists[tqs[self]], cols)
         IN IF r.err # "none" THEN Raise("group_by", self, cols, r.err)
            ELSE ReturnNew("group_by", self, cols, r.rows)
    /\ UNCHANGED sq

\* After construction of the FolderDB: the lists of db.tables and one TableQuery
\* attribute per table, over the table's own list (_attach_tables)
InitApi ==
    /\ lists = Registry
    /\ tqs = [q \in 1..Len(Registry) |-> q]
    /\ call = [op |-> "none", self |-> 0, arg |-> <<>>, ret |-> 0, err |-> "none", n |-> 0]
    /\ sq = [pc |-> "idle"]

NextApi ==
    \/ WhereCall
    \/ HavingCall
    \/ SelectCall
    \/ OrderByCall
    \/ LimitCall
    \/ JoinCall
    \/ MultiJoinCall
    \/ GroupByCall

SpecApi == InitApi /\ [][NextApi]_vars

----------------------------------------------------------------------------
(* Properties of the relational API, over the last call *)

\* The records a TableQuery object holds
RowsOf(q) == lists[tqs[q]]

\* C4: having(P) ends as where(P) does on the same pipeline and the same
\* predicate list: the same records in the same order (or the same error), for
\* every supported operator, contains, in and not in included.
C4_HavingAsWhere ==
    call.op = "having" =>
        LET w == Where(RowsOf(call.self), call.arg)
        IN /\ w.err = call.err
           /\ call.err = "none" => RowsOf(call.ret) = w.rows

\* having was called with a contains / in / not in predicate that where lets
\* some record pass
C4_MembershipPredicate ==
    /\ call.op = "having"
    /\ call.arg[1].op \in {"contains", "in", "not in"}
    /\ Where(RowsOf(call.self), call.arg).err = "none"
    /\ Where(RowsOf(call.self), call.arg).rows # <<>>

\* A call that returns: the object it returns and the list under it did not
\* exist before the call, and every list that did is as it was
FreshResult ==
    (call'.n = call.n + 1 /\ call'.err = "none") =>
        /\ call'.ret \notin 1..Len(tqs)
        /\ tqs'[call'.ret] \notin 1..Len(lists)
        /\ \A a \in 1..Len(lists) : lists'[a] = lists[a]

\* C5: every operator, on every path (the sort-failure path of order_by and
\* multi_join over no tables included), returns a new TableQuery over a newly
\* allocated list and leaves its input's list unmodified.
C5_NewInstanceNewSequence == [][FreshResult]_vars

\* order_by took its sort-failure path, or multi_join was given no tables
C5_FallbackPaths ==
    \/ call.op = "order_by" /\ Sorted(RowsOf(call.self), call.arg.col, call.arg.desc).err # "none"
    \/ call.op = "multi_join" /\ call.arg.tables = <<>>

\* An ordering comparison between a record and a literal of which one is not a
\* number
Mismatched(row, cond) ==
    /\ cond.op \in {">", "<", ">=", "<="}
    /\ ~IsNumber(Get(row, cond.col)) \/ ~IsNumber(cond.val)

\* C6: where never raises on a type-mismatched ordering comparison: the
\* predicate is false for that record (the record is not in the result) and the
\* operator returns normally.
C6_MismatchIsFalse ==
    call.op = "where" =>
        \A k \in 1..Len(RowsOf(call.self)), c \in 1..Len(call.arg) :
            Mismatched(RowsOf(call.self)[k], call.arg[c]) =>
                /\ call.err = "none"
                /\ \A j \in 1..Len(RowsOf(call.ret)) :
                       RowsOf(call.ret)[j] # RowsOf(call.self)[k]

\* where was called with a number column compared against a text literal
C6_NumberAgainstText ==
    /\ call.op = "where"
    /\ \E k \in 1..Len(RowsOf(call.self)) :
          /\ Mismatched(RowsOf(call.self)[k], call.arg[1])
          /\ IsNumber(Get(RowsOf(call.self)[k], call.arg[1].col))
          /\ IsStr(call.arg[1].val)

\* Two records of the pipeline whose values for col cannot be ordered
UnorderablePair(rows, col) ==
    \E i, j \in 1..Len(rows) :
        i # j /\ ~Orderable(Get(rows[i], col), Get(rows[j], col))

\* C10: order_by(col, desc) leaves the pipeline unchanged whenever two records'
\* values for col are unorderable against each other: no error, and the result
\* holds the same records in the same order as the input.
C10_UnorderableUnchanged ==
    (call.op = "order_by" /\ UnorderablePair(RowsOf(call.self), call.arg.col)) =>
        /\ call.err = "none"
        /\ RowsOf(call.ret) = RowsOf(call.self)

\* order_by sorted a column holding an unorderable pair without a failing
\* comparison
C10_SortedDespitePair ==
    /\ call.op = "order_by"
    /\ UnorderablePair(RowsOf(call.self), call.arg.col)
    /\ call.ret # call.self

\* The call that returns now is op(arg) on the pipeline that the call before
\* it, op(arg) too, returned
Again(op) ==
    /\ call.op = op /\ call.err = "none"
    /\ call'.n = call.n + 1 /\ call'.op = op
    /\ call'.self = call.ret /\ call'.arg = call.arg

\* C11: for every pipeline and every integer n, limit(n) on the result of
\* limit(n) returns the records limit(n) returned, and the result of limit(n)
\* is never longer than its input.
C11_LimitIdempotent ==
    [][(call'.n = call.n + 1 /\ call'.op = "limit") =>
          /\ Len(lists'[tqs'[call'.ret]]) <= Len(RowsOf(call'.self))
          /\ Again("limit") => lists'[tqs'[call'.ret]] = RowsOf(call.ret)]_vars

\* limit(n) with a negative n returned fewer records than the pipeline it was
\* called on, which an earlier call returned
C11_NegativeLimit ==
    /\ call.op = "limit" /\ call.arg < 0
    /\ call.self > Len(Registry)
    /\ Len(RowsOf(call.ret)) < Len(RowsOf(call.self))

\* The sum of the COUNT fields of the first g group records
RECURSIVE CountsTo(_, _)
CountsTo(groups, g) ==
    IF g = 0 THEN 0 ELSE CountsTo(groups, g - 1) + groups[g][Col.COUNT].n

\* C12: for every pipeline and every column list cols, group_by(cols) returns
\* exactly one group per distinct key tuple, each group's COUNT is the number
\* of input rows with that key tuple, and the COUNTs add up to the number of
\* input rows.
C12_OneGroupPerKey ==
    call.op = "group_by" =>
        /\ call.err = "none"
        /\ LET rows == RowsOf(call.self)
               out == RowsOf(call.ret)
               SameKey(g, k) == KeyEq(out[g][Col.GroupKey].l, KeyOf(rows[k], call.arg))
           IN /\ \A k \in 1..Len(rows) :
                    Cardinality({g \in 1..Len(out) : SameKey(g, k)}) = 1
              /\ \A g \in 1..Len(out) :
                    /\ out[g][Col.COUNT].t = "int"
                    /\ out[g][Col.COUNT].n = Cardinality({k \in 1..Len(rows) : SameKey(g, k)})
                    /\ out[g][Col.COUNT].n > 0
              /\ CountsTo(out, Len(out)) = Len(rows)

\* group_by was called on a column that holds lists and raised
C12_UnhashableKey ==
    /\ call.op = "group_by"
    /\ call.err = "TypeError"
    /\ \E k \in 1..Len(RowsOf(call.self)) : ~Hashable(KeyOf(RowsOf(call.self)[k], call.arg))

\* The pairs (left row, right row) of equal key values
JoinPairs(ls, rs, on) ==
    {p \in (1..Len(ls)) \X (1..Len(rs)) : PyEq(Get(ls[p[1]], on), Get(rs[p[2]], on))}

\* C13: join(other, key) is the inner equi-join: one merged row for every pair
\* (left row, right row) of equal key values, left-major then in the order of
\* the right rows, and no other row; a column of both rows has the right row's
\* value.
C13_InnerEquiJoin ==
    call.op = "join" =>
        LET ls == RowsOf(call.self)
            rs == RowsOf(call.arg.other)
            out == RowsOf(call.ret)
            pairs == JoinPairs(ls, rs, call.arg.on)
            UpTo(p) == {q \in pairs : q[1] < p[1] \/ (q[1] = p[1] /\ q[2] <= p[2])}
        IN /\ call.err = "none"
           /\ Len(out) = Cardinality(pairs)
           /\ \A p \in pairs :
                LET row == out[Cardinality(UpTo(p))]
                IN /\ DOMAIN row = DOMAIN ls[p[1]] \cup DOMAIN rs[p[2]]
                   /\ \A c \in DOMAIN row :
                        row[c] = IF c \in DOMAIN rs[p[2]] THEN rs[p[2]][c] ELSE ls[p[1]][c]

\* join was called where a left row has two right rows of its key value, a
\* right row has none, and a column of both rows differs in a pair
C13_ManyToMany ==
    /\ call.op = "join"
    /\ LET ls == RowsOf(call.self)
           rs == RowsOf(call.arg.other)
           pairs == JoinPairs(ls, rs, call.arg.on)
       IN /\ \E p, q \in pairs : p[1] = q[1] /\ p[2] # q[2]
          /\ \E j \in 1..Len(rs) : \A p \in pairs : p[2] # j
          /\ \E p \in pairs : \E c \in DOMAIN ls[p[1]] \cap DOMAIN rs[p[2]] :
                ls[p[1]][c] # rs[p[2]][c]

\* The numerator and denominator of the sum of the numbers among the first k
\* values
RECURSIVE TotalTo(_, _)
TotalTo(vals, k) ==
    IF k = 0 THEN <<0, 1>>
    ELSE Bind(TotalTo(vals, k - 1), LAMBDA s :
           IF IsNumber(vals[k]) THEN <<s[1] * vals[k].d + vals[k].n * s[2], s[2] * vals[k].d>>
           ELSE s)

\* C14: in every group of group_by, for every column with a number among the
\* values of the group's members, SUM_col, MIN_col and MAX_col are the sum, the
\* least and the greatest of the numbers alone (null and text values are left
\* out, not counted as zero); a column with no number in the group has no
\* aggregate field in the group record.
C14_NumericMembersOnly ==
    (call.op = "group_by" /\ call.err = "none") =>
        \A g \in 1..Len(RowsOf(call.ret)) :
            LET group == RowsOf(call.ret)[g]
                members == group[Col.Rows].r
            IN \A c \in UNION {DOMAIN members[k] : k \in 1..Len(members)} :
                 LET vals == [k \in 1..Len(members) |-> Get(members[k], c)]
                     nums == {k \in 1..Len(vals) : IsNumber(vals[k])}
                     total == TotalTo(vals, Len(vals))
                 IN IF nums = {}
                    THEN \A pre \in {Col.SUM, Col.MIN, Col.MAX} : pre \o c \notin DOMAIN group
                    ELSE /\ {Col.SUM \o c, Col.MIN \o c, Col.MAX \o c} \subseteq DOMAIN group
                         /\ IsNumber(group[Col.SUM \o c])
                         /\ group[Col.SUM \o c].n * total[2] = total[1] * group[Col.SUM \o c].d
                         /\ \E k \in nums : group[Col.MIN \o c] = vals[k]
                         /\ \A k \in nums : ~NumLt(vals[k], group[Col.MIN \o c])
                         /\ \E k \in nums : group[Col.MAX \o c] = vals[k]
                         /\ \A k \in nums : ~NumLt(group[Col.MAX \o c], vals[k])

\* group_by made a group in which a column holds a number, a text and a null,
\* and a group in which a column holds no number
C14_MixedColumn ==
    /\ call.op = "group_by" /\ call.err = "none"
    /\ \E g \in 1..Len(RowsOf(call.ret)) :
         LET members == RowsOf(call.ret)[g][Col.Rows].r
             Kinds(c) == {Get(members[k], c).t : k \in 1..Len(members)}
         IN /\ {"int", "str", "null"} \subseteq Kinds(Col.tag)
            /\ Col.name \in UNION {DOMAIN members[k] : k \in 1..Len(members)}
            /\ Kinds(Col.name) \subseteq {"str", "null"}

\* C18: where is idempotent: for every pipeline and every predicate list P,
\* where(P) on the result of where(P) returns the same records in the same
\* order as where(P) returned.
C18_WhereIdempotent ==
    [][Again("where") =>
          /\ call'.err = "none"
          /\ lists'[tqs'[call'.ret]] = RowsOf(call.ret)]_vars

\* where(P) was called on a pipeline that where(P) returns from a table, which
\* holds some but not all of the table's records
C18_FilteredTwice ==
    /\ call.op = "where" /\ call.err = "none"
    /\ call.self > Len(Registry)
    /\ RowsOf(call.self) # <<>>
    /\ \E t \in 1..Len(Registry) :
         /\ Where(RowsOf(t), call.arg).err = "none"
         /\ Where(RowsOf(t), call.arg).rows = RowsOf(call.self)
         /\ Len(RowsOf(call.self)) < Len(RowsOf(t))

----------------------------------------------------------------------------
(* SQLParserAdvanced.run(sql_text), one step per clause.  A query is given   *)
(* by the clauses the regular expressions of run extract from it: the FROM   *)
(* name, the JOIN ... USING items, the words of the WHERE and of the HAVING  *)
(* expression, the GROUP BY columns, the ORDER BY item, the LIMIT and the    *)
(* SELECT items (<< "*" >> alone for SELECT * ).                             *)

\* " ".join(s.split()): the words of a clause, one space between them
RECURSIVE Text(_)
Text(ws) ==
    IF ws = <<>> THEN <<>>
    ELSE IF Len(ws) = 1 THEN ws[1]
    ELSE ws[1] \o <<" ">> \o Text(Tail(ws))

\* The names of the tables of the registry: the keys of db.tables
Tables == {"T", "U"}

\* The attributes of the FolderDB object after __init__: what hasattr and
\* getattr see
DbAttr ==
    [n \in Tables |-> [kind |-> "TableQuery", q |-> IF n = "T" THEN 1 ELSE 2]]
    @@ [n \in {"base_path", "base_metadata"} |-> [kind |-> "str", q |-> 0]]
    @@ [n \in {"tables"} |-> [kind |-> "dict", q |-> 0]]
    @@ [n \in {"sql", "_load", "_attach_tables"} |-> [kind |-> "method", q |-> 0]]
    @@ [n \in {"sql_engine"} |-> [kind |-> "SQLParserAdvanced", q |-> 0]]

\* getattr(self.db, name): the object, with its rows if it is a TableQuery
Load(name) ==
    [kind |-> DbAttr[name].kind,
     rows |-> IF DbAttr[name].kind = "TableQuery" THEN lists[tqs[DbAttr[name].q]] ELSE <<>>]

\* The comparisons the WHERE expressions are built from
Atoms ==
    { <<Col.id, Kw.eq, <<"1">>>>, <<Col.amt, Kw.gt, <<"8">>>>, <<Col.id, Kw.eq, <<"2">>>>,
      <<Col.name, <<"c", "o", "n", "t", "a", "i", "n", "s">>, <<"'", "B", "'">>>> }

\* The literal lists of IN and NOT IN
InLists == { << <<"(", "1", ")">> >>, << <<"(", "2", ",">>, <<"3", ")">> >>,
             << <<"(", "'", "a", "'", ",">>, <<"1", ")">> >> }

\* WHERE expressions: A OR B AND C; IN and NOT IN; NOT with and without
\* parentheses; IN with a list that is not well formed; operators with an
\* operand missing or a parenthesis unmatched
WhereTexts ==
    [orand |-> {a \o <<Kw.or>> \o b \o <<Kw.and>> \o c : a, b, c \in Atoms},
     isin |-> {<<col, Kw.in>> \o l : col \in {Col.id, Col.tag}, l \in InLists},
     notin |-> {<<col, Kw.not, Kw.in>> \o l : col \in {Col.id, Col.tag}, l \in InLists},
     neg |-> {<<Kw.not>> \o a : a \in Atoms}
               \cup {<<Kw.not, <<"(">>>> \o a \o << <<")">> >> : a \in Atoms},
     badin |-> { <<Col.id, Kw.in, <<"(", "1", ",">>, <<"2">>>>,
                 <<Col.id, Kw.in, <<"1">>>>,
                 <<Col.id, Kw.in>>,
                 <<Col.id, Kw.in, <<"(", "1">>, <<"2", ")">>>>,
                 <<Col.id, Kw.in, <<"(">>>> },
     badop |-> { <<Col.amt, Kw.eq>>,
                 <<Col.amt, Kw.gt, <<"8">>, Kw.and>>,
                 <<Kw.eq, <<"1">>>>,
                 <<Kw.not>>,
                 <<<<"(">>, Col.id, Kw.eq, <<"1">>>>,
                 <<Col.id, Kw.eq, <<"1">>, <<")">>>> }]

\* SELECT clauses, in words: *; plain columns; COUNT(*) alone, and after a
\* plain column with AS; an aggregate with an alias and a plain column
SelectTexts ==
    { << <<"*">> >>,
      <<Col.id>>,
      <<Col.id \o <<",">>, Col.COUNT>>,
      << <<"C", "O", "U", "N", "T", "(", "*", ")">> >>,
      <<Col.id \o <<",">>, <<"c", "o", "u", "n", "t", "(", "*", ")">>, <<"A", "S">>, <<"n">>>>,
      << <<"M", "A", "X", "(", "a", "m", "t", ")">>, <<"t", "o", "p", ",">>, Col.name>> }

\* SELECT * FROM T
Star ==
    [from |-> "T", joins |-> <<>>, where |-> <<>>, group |-> <<>>, having |-> <<>>,
     order |-> <<>>, limit |-> <<>>, select |-> << <<"*">> >>]

\* The names FROM and JOIN are given
Names == {"T", "U", "tables", "sql", "base_path", "nope"}

\* The queries run: every FROM name with every JOIN name; every WHERE
\* expression on both tables; the later clauses in every combination
Queries ==
    {[Star EXCEPT !.from = n, !.joins = js] :
        n \in Names,
        js \in {<<>>} \cup {<<[table |-> m, key |-> Col.id]>> : m \in Names}}
    \cup {[Star EXCEPT !.from = n, !.where = w] :
        n \in {"T", "U"},
        w \in UNION {WhereTexts[f] : f \in DOMAIN WhereTexts}}
    \cup {[Star EXCEPT !.from = n, !.where = w, !.group = g, !.having = h,
                       !.order = o, !.limit = l, !.select = s] :
        n \in {"T", "U"},
        w \in {<<>>, <<Col.amt, Kw.gt, <<"8">>>>},
        g \in {<<>>, <<Col.id>>},
        h \in {<<>>, <<Col.COUNT, Kw.gt, <<"1">>>>},
        o \in {<<>>, <<[col |-> Col.id, desc |-> TRUE]>>, <<[col |-> Col.tag, desc |-> FALSE]>>},
        l \in {<<>>, <<1>>},
        s \in SelectTexts}

\* _split_top_level_commas: the parts of s between the commas outside parentheses
RECURSIVE SplitTopLevelCommas(_, _, _, _, _)
SplitTopLevelCommas(s, i, depth, parts, cur) ==
    IF i > Len(s) THEN (IF cur # <<>> THEN Append(parts, cur) ELSE parts)
    ELSE Bind(IF s[i] = "(" THEN depth + 1 ELSE IF s[i] = ")" THEN depth - 1 ELSE depth,
              LAMBDA d :
           IF s[i] = "," /\ d = 0
           THEN Bind(Append(parts, cur), LAMBDA ps : SplitTopLevelCommas(s, i + 1, d, ps, <<>>))
           ELSE Bind(Append(cur, s[i]), LAMBDA c : SplitTopLevelCommas(s, i + 1, d, parts, c)))

\* The length of the longest run of characters of the set chars, or of word
\* characters when word is TRUE, that starts at s[i]
Span(s, i, chars, word) ==
    LET In(c) == IF word THEN WordChar(c) \/ c \in chars ELSE c \in chars
        stop == {j \in i..Len(s) : ~In(s[j])}
    IN IF stop = {} THEN Len(s) + 1 - i ELSE (CHOOSE j \in stop : \A k \in stop : j <= k) - i

\* m_func of _parse_select_items on expr: FUNC ( col ) with blanks allowed
\* around the parentheses; <<>> when expr is no function call
MatchFunc(expr) ==
    Bind(Span(expr, 1, {}, TRUE), LAMBDA f :
      Bind(f + 1 + Span(expr, f + 1, {" "}, FALSE), LAMBDA open :
        Bind(open + 1 + Span(expr, open + 1, {" "}, FALSE), LAMBDA arg :
          Bind(Span(expr, arg, {"*"}, TRUE), LAMBDA c :
            Bind(arg + c + Span(expr, arg + c, {" "}, FALSE), LAMBDA close :
              IF /\ f >= 1
                 /\ open <= Len(expr) /\ expr[open] = "("
                 /\ close = Len(expr) /\ expr[close] = ")"
              THEN <<[func |-> UpperStr(SubSeq(expr, 1, f)),
                      col |-> SubSeq(expr, arg, arg + c - 1)]>>
              ELSE <<>>)))))

\* One item of _parse_select_items: the alias that follows the last blank (with
\* AS before it or not), then FUNC ( col ) with FUNC in upper case, or a column
ParseSelectItem(it0) ==
    Bind(Strip(it0, {" "}), LAMBDA it :
      Bind(LET blanks == {p \in 1..Len(it) : it[p] = " "}
           IN IF blanks = {} THEN 0 ELSE CHOOSE p \in blanks : \A r \in blanks : r <= p,
           LAMBDA last :
        Bind(SubSeq(it, last + 1, Len(it)), LAMBDA tail :
          Bind(SubSeq(it, 1, last - 1), LAMBDA head :
            Bind(last > 1 /\ Span(tail, 1, {}, TRUE) = Len(tail), LAMBDA m_alias :
              Bind(IF ~m_alias THEN it
                   ELSE IF /\ Len(head) >= 4
                           /\ LowerStr(SubSeq(head, Len(head) - 2, Len(head))) = <<" ", "a", "s">>
                   THEN Strip(SubSeq(head, 1, Len(head) - 3), {" "})
                   ELSE Strip(head, {" "}),
                   LAMBDA expr :
                Bind(MatchFunc(expr), LAMBDA m_func :
                  IF m_func # <<>>
                  THEN [type |-> "agg", func |-> m_func[1].func, col |-> m_func[1].col,
                        name |-> <<>>,
                        alias |-> IF m_alias THEN tail
                                  ELSE m_func[1].func \o <<"_">>
                                         \o (IF m_func[1].col = <<>> THEN <<"*">>
                                             ELSE m_func[1].col)]
                  ELSE [type |-> "col", func |-> <<>>, col |-> <<>>, name |-> expr,
                        alias |-> IF m_alias THEN tail ELSE expr])))))))

\* _parse_select_items(clause)
ParseSelectItems(clause) ==
    Bind(SplitTopLevelCommas(clause, 1, 0, <<>>, <<>>), LAMBDA parts :
      [i \in 1..Len(parts) |-> ParseSelectItem(parts[i])])

\* The aggregate without the case of COUNT(*): * is counted as a column is
ComputeAggregateStarAsColumn(func, col, rows) ==
    IF UpperStr(func) = Col.COUNT
    THEN IF col = <<>> THEN PyInt(Len(rows))
         ELSE PyInt(Cardinality({k \in 1..Len(rows) : Get(rows[k], col).t # "null"}))
    ELSE Bind(NumericVals(rows, col), LAMBDA vals :
           IF vals = <<>> THEN Null
           ELSE CASE UpperStr(func) = <<"S", "U", "M">> -> SumVals(vals)
                  [] UpperStr(func) = <<"M", "I", "N">> -> MinVals(vals)
                  [] UpperStr(func) = <<"M", "A", "X">> -> MaxVals(vals)
                  [] UpperStr(func) = <<"A", "V", "G">> -> AvgVals(vals)
                  [] OTHER -> Null)

\* _compute_aggregate_over_rows(func, col, rows); col is <<>> for no column
ComputeAggregateOverRows(func, col, rows) ==
    IF UpperStr(func) = Col.COUNT
    THEN IF col \in {<<>>, <<"*">>} THEN PyInt(Len(rows))
         ELSE PyInt(Cardinality({k \in 1..Len(rows) : Get(rows[k], col).t # "null"}))
    ELSE Bind(NumericVals(rows, col), LAMBDA vals :
           IF vals = <<>> THEN Null
           ELSE CASE UpperStr(func) = <<"S", "U", "M">> -> SumVals(vals)
                  [] UpperStr(func) = <<"M", "I", "N">> -> MinVals(vals)
                  [] UpperStr(func) = <<"M", "A", "X">> -> MaxVals(vals)
                  [] UpperStr(func) = <<"A", "V", "G">> -> AvgVals(vals)
                  [] OTHER -> Null)

\* The locals of run as it is entered with the clauses of a query
Entered(q, prev) ==
    [pc |-> "from", q |-> q, table |-> [kind |-> "none", rows |-> <<>>],
     j |-> 1, rpn |-> <<>>, k |-> 1, kept |-> <<>>, grouped |-> FALSE,
     at |-> "", err |-> [kind |-> "none", name |-> ""], out |-> <<>>, prev |-> prev]

\* run(sql_text) is entered, on a database no operator was called on
Run ==
    /\ sq.pc = "idle" /\ call.n = 0
    /\ \E q \in Queries : sq' = Entered(q, [pc |-> "none"])
    /\ UNCHANGED <<lists, tqs, call>>

\* run is entered again with the query that ended, once; prev keeps how the
\* query ended the first time
Reissue ==
    /\ sq.pc \in {"done", "failed"}
    /\ sq.prev.pc = "none"
    /\ sq' = Entered(sq.q, [pc |-> sq.pc, at |-> sq.at, err |-> sq.err, out |-> sq.out])
    /\ UNCHANGED <<lists, tqs, call>>

\* An exception leaves run at the clause it is in; name is the table name a
\* ValueError of the name resolution reports
Fail(kind, name) ==
    sq' = [sq EXCEPT !.pc = "failed", !.at = sq.pc, !.err = [kind |-> kind, name |-> name]]

\* FROM: hasattr(self.db, from_table), then getattr
From ==
    /\ sq.pc = "from"
    /\ IF sq.q.from \notin DOMAIN DbAttr THEN Fail("ValueError", sq.q.from)
       ELSE sq' = [sq EXCEPT !.pc = "join", !.table = Load(sq.q.from)]
    /\ UNCHANGED <<lists, tqs, call>>

\* One iteration of the loop over the JOIN items, or its end.  table.join is
\* looked up on whatever object table is (a str has a join method, which takes
\* no keyword argument); join reads other.rows once per row of table.
JoinStep ==
    /\ sq.pc = "join"
    /\ IF sq.j > Len(sq.q.joins) THEN sq' = [sq EXCEPT !.pc = "where"]
       ELSE LET jn == sq.q.joins[sq.j]
            IN IF jn.table \notin DOMAIN DbAttr THEN Fail("ValueError", jn.table)
               ELSE IF sq.table.kind = "str" THEN Fail("TypeError", "")
               ELSE IF sq.table.kind # "TableQuery" THEN Fail("AttributeError", "")
               ELSE IF Load(jn.table).kind # "TableQuery" /\ sq.table.rows # <<>>
               THEN Fail("AttributeError", "")
               ELSE sq' = [sq EXCEPT !.j = @ + 1,
                                     !.table.rows = Join(@, Load(jn.table).rows, jn.key)]
    /\ UNCHANGED <<lists, tqs, call>>

\* WHERE and HAVING: a clause that is present is compiled by
\* _parse_boolean_expression, and _apply_filter_expr is entered (table.all())
Compile ==
    /\ sq.pc \in {"where", "having"}
    /\ LET text == Strip(Text(IF sq.pc = "where" THEN sq.q.where ELSE sq.q.having), {" "})
           r == ParseBooleanExpression(text)
       IN IF text = <<>>
          THEN sq' = [sq EXCEPT !.pc = IF sq.pc = "where" THEN "group" ELSE "order"]
          ELSE IF r.err # "none" THEN Fail(r.err, "")
          ELSE IF sq.table.kind # "TableQuery" THEN Fail("AttributeError", "")
          ELSE sq' = [sq EXCEPT !.pc = IF sq.pc = "where" THEN "where_rows" ELSE "having_rows",
                                !.rpn = r.rpn, !.k = 1, !.kept = <<>>]
    /\ UNCHANGED <<lists, tqs, call>>

\* _apply_filter_expr: eval_row on the next row of the comprehension, or the
\* TableQuery of the rows kept
FilterRow ==
    /\ sq.pc \in {"where_rows", "having_rows"}
    /\ IF sq.k <= Len(sq.table.rows)
       THEN LET r == EvalRow(sq.rpn, sq.table.rows[sq.k])
            IN IF r.err # "none" THEN Fail(r.err, "")
               ELSE sq' = [sq EXCEPT !.k = @ + 1,
                                     !.kept = IF r.v THEN Append(@, sq.table.rows[sq.k]) ELSE @]
       ELSE sq' = [sq EXCEPT !.pc = IF sq.pc = "where_rows" THEN "group" ELSE "order",
                             !.table.rows = sq.kept, !.kept = <<>>]
    /\ UNCHANGED <<lists, tqs, call>>

\* GROUP BY
Group ==
    /\ sq.pc = "group"
    /\ LET g == GroupBy(sq.table.rows, sq.q.group)
       IN IF sq.q.group = <<>> THEN sq' = [sq EXCEPT !.pc = "having"]
          ELSE IF sq.table.kind # "TableQuery" THEN Fail("AttributeError", "")
          ELSE IF g.err # "none" THEN Fail(g.err, "")
          ELSE sq' = [sq EXCEPT !.pc = "having", !.table.rows = g.rows, !.grouped = TRUE]
    /\ UNCHANGED <<lists, tqs, call>>

\* ORDER BY that sorts the list of the table in place (self.rows.sort): the
\* list of the registry, when no clause before it made a new list
OrderInPlace ==
    /\ sq.pc = "order"
    /\ IF sq.q.order = <<>>
       THEN sq' = [sq EXCEPT !.pc = "limit"] /\ UNCHANGED lists
       ELSE IF sq.table.kind # "TableQuery"
       THEN Fail("AttributeError", "") /\ UNCHANGED lists
       ELSE LET s == Sorted(sq.table.rows, sq.q.order[1].col, sq.q.order[1].desc)
                rows == IF s.err # "none" THEN sq.table.rows ELSE s.rows
                own == sq.q.joins = <<>> /\ sq.q.where = <<>> /\ sq.q.group = <<>>
                         /\ sq.q.having = <<>>
            IN /\ sq' = [sq EXCEPT !.pc = "limit", !.table.rows = rows]
               /\ lists' = IF own THEN [lists EXCEPT ![tqs[DbAttr[sq.q.from].q]] = rows]
                           ELSE lists
    /\ UNCHANGED <<tqs, call>>

\* ORDER BY applied to the rows LIMIT keeps: the two clauses in the other order
OrderAfterLimit ==
    /\ sq.pc = "order"
    /\ IF sq.q.order = <<>> THEN sq' = [sq EXCEPT !.pc = "limit"]
       ELSE IF sq.table.kind # "TableQuery" THEN Fail("AttributeError", "")
       ELSE LET cut == IF sq.q.limit = <<>> THEN sq.table.rows
                       ELSE Limit(sq.table.rows, sq.q.limit[1])
                s == Sorted(cut, sq.q.order[1].col, sq.q.order[1].desc)
            IN sq' = [sq EXCEPT !.pc = "limit",
                                !.table.rows = IF s.err # "none" THEN cut ELSE s.rows]
    /\ UNCHANGED <<lists, tqs, call>>

\* ORDER BY: table.order_by(col, desc), which keeps table when the sort raises
Order ==
    /\ sq.pc = "order"
    /\ IF sq.q.order = <<>> THEN sq' = [sq EXCEPT !.pc = "limit"]
       ELSE IF sq.table.kind # "TableQuery" THEN Fail("AttributeError", "")
       ELSE LET s == Sorted(sq.table.rows, sq.q.order[1].col, sq.q.order[1].desc)
            IN sq' = [sq EXCEPT !.pc = "limit",
                                !.table.rows = IF s.err # "none" THEN @ ELSE s.rows]
    /\ UNCHANGED <<lists, tqs, call>>

\* LIMIT
LimitStep ==
    /\ sq.pc = "limit"
    /\ IF sq.q.limit = <<>> THEN sq' = [sq EXCEPT !.pc = "project"]
       ELSE IF sq.table.kind # "TableQuery" THEN Fail("AttributeError", "")
       ELSE sq' = [sq EXCEPT !.pc = "project", !.table.rows = Limit(@, sq.q.limit[1])]
    /\ UNCHANGED <<lists, tqs, call>>

\* The SELECT projection of rows: result_rows.all() for *; per group, the
\* aggregate of an item recomputed over _rows, the group's own field or its
\* first row's value; one summary record when an item of a table that is not
\* grouped is an aggregate; r.get(name) otherwise.  A record is keyed by the
\* aliases, the last item of an alias giving its value.
Projection(clause, rows, grouped) ==
    Bind(ParseSelectItems(clause), LAMBDA items :
      Bind({items[i].alias : i \in 1..Len(items)}, LAMBDA aliases :
        Bind([a \in aliases |->
                items[CHOOSE i \in 1..Len(items) :
                        /\ items[i].alias = a
                        /\ \A j \in 1..Len(items) : items[j].alias = a => j <= i]],
             LAMBDA Item :
          LET OfGroup(gr, it) ==
                  IF it.type = "agg"
                  THEN ComputeAggregateOverRows(it.func, it.col, Get(gr, Col.Rows).r)
                  ELSE IF it.name \in DOMAIN gr THEN gr[it.name]
                  ELSE IF Get(gr, Col.Rows).r = <<>> THEN Null
                  ELSE Get(Get(gr, Col.Rows).r[1], it.name)
              OfAll(it) ==
                  IF it.type = "agg" THEN ComputeAggregateOverRows(it.func, it.col, rows)
                  ELSE IF rows = <<>> THEN Null ELSE Get(rows[1], it.name)
          IN IF clause = <<"*">> THEN rows
             ELSE IF grouped
             THEN [k \in 1..Len(rows) |-> [a \in aliases |-> OfGroup(rows[k], Item[a])]]
             ELSE IF \E i \in 1..Len(items) : items[i].type = "agg"
             THEN << [a \in aliases |-> OfAll(Item[a])] >>
             ELSE [k \in 1..Len(rows) |-> [a \in aliases |-> Get(rows[k], Item[a].name)]])))

\* The end of run: the projection of the rows of table
Project ==
    /\ sq.pc = "project"
    /\ IF sq.table.kind # "TableQuery" THEN Fail("AttributeError", "")
       ELSE sq' = [sq EXCEPT
              !.pc = "done",
              !.out = Projection(Strip(Text(sq.q.select), {" "}), sq.table.rows, sq.grouped)]
    /\ UNCHANGED <<lists, tqs, call>>

\* After construction of the FolderDB, no query running
Init ==
    /\ lists = Registry
    /\ tqs = [q \in 1..Len(Registry) |-> q]
    /\ call = [op |-> "none", self |-> 0, arg |-> <<>>, ret |-> 0, err |-> "none", n |-> 0]
    /\ sq = [pc |-> "idle"]

Next ==
    \/ Run
    \/ From
    \/ JoinStep
    \/ Compile
    \/ FilterRow
    \/ Group
    \/ Order
    \/ LimitStep
    \/ Project
    \/ Reissue

Spec == Init /\ [][Next]_vars

\* The database under calls of the relational API or under queries
NextDb == Next \/ NextApi

SpecDb == Init /\ [][NextDb]_vars

----------------------------------------------------------------------------
(* Properties of run *)

\* The rows of rows[1..n] on which the expression of the words ws is Keep
FilterBy(ws, rows, n, keep) ==
    LET rpn == ParseBooleanExpression(Text(ws)).rpn
    IN SelectSeq(SubSeq(rows, 1, n), LAMBDA r : EvalRow(rpn, r).v = keep)

\* run is past the compilation of its WHERE clause
PastWhere == sq.pc \notin {"idle", "from", "join", "where"}

\* The WHERE clause of the running query kept, of the rows evaluated so far,
\* those on which the expression of the words ws is keep; no error was raised
WhereKeeps(ws, keep) ==
    /\ sq.pc # "failed"
    /\ sq.pc = "where_rows" => sq.kept = FilterBy(ws, sq.table.rows, sq.k - 1, keep)
    /\ sq.pc = "done" => sq.out = FilterBy(ws, Load(sq.q.from).rows,
                                           Len(Load(sq.q.from).rows), keep)

\* C1: for every record and all comparisons A, B, C, the expression
\* A OR B AND C, tokenized, compiled and evaluated, gives the boolean that
\* A OR (B AND C) gives: the WHERE clause keeps exactly the records the
\* parenthesized expression is true on.
C1_AndBindsTighter ==
    \A a, b, c \in Atoms :
        (PastWhere /\ sq.q.where = a \o <<Kw.or>> \o b \o <<Kw.and>> \o c) =>
            WhereKeeps(a \o <<Kw.or, <<"(">>>> \o b \o <<Kw.and>> \o c \o << <<")">> >>, TRUE)

\* A OR B AND C was evaluated on every record of a table with a record on which
\* A is true and C is false, where (A OR B) AND C differs
C1_GroupingMatters ==
    /\ sq.pc = "where_rows"
    /\ sq.k > Len(sq.table.rows)
    /\ \E a, b, c \in Atoms :
         /\ sq.q.where = a \o <<Kw.or>> \o b \o <<Kw.and>> \o c
         /\ FilterBy(a, sq.table.rows, sq.k - 1, TRUE) # <<>>
         /\ FilterBy(<< <<"(">> >> \o a \o <<Kw.or>> \o b \o << <<")">>, Kw.and>> \o c,
                     sq.table.rows, sq.k - 1, TRUE) # sq.kept

\* C2: col NOT IN (list) is true exactly on the records whose value for col is
\* not a member of the list: the WHERE clause keeps the records on which
\* col IN (list) is false, and raises nothing.
C2_NotInNegatesIn ==
    \A col \in {Col.id, Col.tag}, l \in InLists :
        (PastWhere /\ sq.q.where = <<col, Kw.not, Kw.in>> \o l) =>
            WhereKeeps(<<col, Kw.in>> \o l, FALSE)

\* A NOT IN expression was compiled and reached the evaluation of a record
C2_NotInEvaluated ==
    /\ sq.pc = "failed"
    /\ sq.at = "where_rows"
    /\ sq.q.where \in WhereTexts.notin

\* C3: NOT E is the negation of E, E a comparison or a CONTAINS, with or
\* without parentheses around it: the WHERE clause NOT E keeps the records on
\* which E is false.
C3_NotNegates ==
    \A a \in Atoms :
        (PastWhere /\ sq.q.where \in {<<Kw.not>> \o a, <<Kw.not, <<"(">>>> \o a \o << <<")">> >>}) =>
            WhereKeeps(a, FALSE)

\* NOT E without parentheses was evaluated on every record of a table that
\* has a record on which E is false
C3_BareNotEvaluated ==
    /\ sq.pc = "where_rows"
    /\ sq.k > Len(sq.table.rows)
    /\ \E a \in Atoms :
         /\ sq.q.where = <<Kw.not>> \o a
         /\ FilterBy(a, sq.table.rows, sq.k - 1, FALSE) # <<>>

\* C7: an IN that is not followed by a parenthesized, comma-separated list of
\* literals (a list whose closing parenthesis is missing included) is a fatal
\* error of the compilation: run is left while the WHERE clause is compiled.
C7_MalformedInIsFatal ==
    (PastWhere /\ sq.q.where \in WhereTexts.badin) =>
        sq.pc = "failed" /\ sq.at = "where"

\* An IN list without its closing parenthesis was compiled and its query
\* returned rows
C7_UnclosedListAccepted ==
    /\ sq.pc = "done"
    /\ sq.q.where = <<Col.id, Kw.in, <<"(", "1", ",">>, <<"2">>>>
    /\ sq.out # <<>>

\* C8: an expression with an operand missing makes run fail while it is
\* compiled, before a record is evaluated; and the evaluation of a compiled
\* expression never fails for lack of operands on its stack.
C8_FailsAtCompileTime ==
    /\ (PastWhere /\ sq.q.where \in WhereTexts.badop) => sq.pc = "failed" /\ sq.at = "where"
    /\ (sq.pc = "failed" /\ sq.at \in {"where_rows", "having_rows"}) => sq.err.kind # "IndexError"

\* An expression with an operand missing was compiled and a record is about to
\* be evaluated on it
C8_MissingOperandCompiled ==
    /\ sq.pc = "where_rows"
    /\ sq.k <= Len(sq.table.rows)
    /\ sq.q.where = <<Col.amt, Kw.eq>>

\* C9: a FROM or JOIN name that is not the name of a table of the registry makes
\* run fail with the error of the name resolution, which reports that name;
\* names of other attributes of the database object included.
C9_UnknownNameReported ==
    sq.pc # "idle" =>
        /\ (sq.q.from \notin Tables /\ sq.pc # "from") =>
               /\ sq.pc = "failed" /\ sq.at = "from"
               /\ sq.err = [kind |-> "ValueError", name |-> sq.q.from]
        /\ \A j \in 1..Len(sq.q.joins) :
               (/\ sq.q.from \in Tables
                /\ \A i \in 1..(j - 1) : sq.q.joins[i].table \in Tables
                /\ sq.q.joins[j].table \notin Tables
                /\ sq.pc \notin {"from", "join"}) =>
                   /\ sq.pc = "failed" /\ sq.at = "join"
                   /\ sq.err = [kind |-> "ValueError", name |-> sq.q.joins[j].table]

\* A FROM name that is an attribute of the database object but no table passed
\* the name resolution
C9_AttributeTakenForTable ==
    /\ sq.pc = "join"
    /\ sq.q.from \notin Tables
    /\ sq.table.kind # "TableQuery"

\* The rows FROM and the JOIN items give a query whose names are tables
RECURSIVE Joined(_, _)
Joined(rows, joins) ==
    IF joins = <<>> THEN rows
    ELSE Joined(Join(rows, Load(joins[1].table).rows, joins[1].key), Tail(joins))

\* The rows of the query q that its WHERE expression keeps, and of rows those
\* that the expression of the words ws keeps (all of them when there is none)
Kept(ws, rows) == IF ws = <<>> THEN rows ELSE FilterBy(ws, rows, Len(rows), TRUE)
Survivors(q) == Kept(q.where, Joined(Load(q.from).rows, q.joins))

\* rows in the order of their values for col, rows of equal value in the order
\* they had; rows as they are when two of the values cannot be ordered
StableOrder(rows, col, desc) ==
    LET n == Len(rows)
        key(i) == Get(rows[i], col)
        Before(i, j) == IF desc THEN PyLt(key(j), key(i)) ELSE PyLt(key(i), key(j))
    IN IF \E i, j \in 1..n : i # j /\ ~Orderable(key(i), key(j)) THEN rows
       ELSE LET p == CHOOSE f \in [1..n -> 1..n] :
                       /\ \A i, j \in 1..n : i # j => f[i] # f[j]
                       /\ \A i, j \in 1..n :
                            i < j => /\ ~Before(f[j], f[i])
                                     /\ ~Before(f[i], f[j]) => f[i] < f[j]
            IN [i \in 1..n |-> rows[p[i]]]

\* The rows of the query q that is not grouped as they reach the projection:
\* the survivors of WHERE that HAVING keeps, ordered, then the first n of them
Pipeline(q) ==
    LET filtered == Kept(q.having, Survivors(q))
        ordered == IF q.order = <<>> THEN filtered
                   ELSE StableOrder(filtered, q.order[1].col, q.order[1].desc)
    IN IF q.limit = <<>> \/ q.limit[1] >= Len(ordered) THEN ordered
       ELSE SubSeq(ordered, 1, q.limit[1])

\* C15: the clauses are applied in the order FROM/JOIN, WHERE, GROUP BY, HAVING,
\* ORDER BY, LIMIT, SELECT: the result of a query is the projection of the
\* first n records of the ordered, filtered rows, and
\* SELECT id FROM T WHERE amt > 8 ORDER BY id DESC LIMIT 1 returns [{id: 1}].
C15_ClauseOrder ==
    /\ (sq.pc = "done" /\ sq.q.group = <<>> /\ sq.q.select = << <<"*">> >>) =>
           sq.out = Pipeline(sq.q)
    /\ (sq.pc = "done" /\ sq.q.group = <<>> /\ sq.q.select = <<Col.id>>) =>
           sq.out = [k \in 1..Len(Pipeline(sq.q)) |->
                       (Col.id :> Get(Pipeline(sq.q)[k], Col.id))]
    /\ (sq.pc \in {"done", "failed"}
          /\ sq.q = [Star EXCEPT !.where = <<Col.amt, Kw.gt, <<"8">>>>,
                                 !.order = <<[col |-> Col.id, desc |-> TRUE]>>,
                                 !.limit = <<1>>, !.select = <<Col.id>>]) =>
           sq.pc = "done" /\ sq.out = << (Col.id :> PyInt(1)) >>

\* A query with ORDER BY and LIMIT ended whose result is not the projection of
\* the first rows WHERE kept: the order of the two clauses shows
C15_OrderThenLimit ==
    /\ sq.pc = "done"
    /\ sq.q.group = <<>> /\ sq.q.order # <<>> /\ sq.q.limit # <<>>
    /\ sq.q.select = <<Col.id>>
    /\ sq.out # <<>>
    /\ sq.out[1] # (Col.id :> Get(Survivors(sq.q)[1], Col.id))

\* A query that is not grouped ended, with an aggregate among its SELECT items
AggregateDone ==
    /\ sq.pc = "done"
    /\ sq.q.group = <<>>
    /\ sq.q.select # << <<"*">> >>
    /\ \E it \in {ParseSelectItems(Text(sq.q.select))[i] :
                    i \in 1..Len(ParseSelectItems(Text(sq.q.select)))} : it.type = "agg"

\* The result is one summary record over rows: COUNT(*) their number, a plain
\* column the value of the first of them, null when there is none
Summary(out, q, rows) ==
    /\ Len(out) = 1
    /\ LET items == ParseSelectItems(Text(q.select))
       IN \A i \in 1..Len(items) :
            /\ items[i].alias \in DOMAIN out[1]
            /\ (items[i].type = "agg" /\ items[i].func = Col.COUNT /\ items[i].col = <<"*">>) =>
                   out[1][items[i].alias] = PyInt(Len(rows))
            /\ items[i].type = "col" =>
                   out[1][items[i].alias] =
                       IF rows = <<>> THEN Null ELSE Get(rows[1], items[i].name)

\* C16 (as claimed): a query that is not grouped and has an aggregate item
\* returns exactly one summary record, also when no row survives: COUNT(*) is
\* the number of rows that survive WHERE, and a plain column takes the value of
\* the first surviving row (null when there is none).
C16_CountsWhereSurvivors ==
    AggregateDone => Summary(sq.out, sq.q, Survivors(sq.q))

\* C16 (amended): the one summary record is taken over the rows that reach the
\* projection: the rows that survive WHERE and HAVING, ordered by ORDER BY and
\* cut by LIMIT.  COUNT(*) is their number and a plain column takes the value
\* of the first of them (null when there is none); without HAVING, ORDER BY and
\* LIMIT these are the rows that survive WHERE.
C16_CountsPipelineRows ==
    AggregateDone =>
        /\ Summary(sq.out, sq.q, Pipeline(sq.q))
        /\ (sq.q.having = <<>> /\ sq.q.order = <<>> /\ sq.q.limit = <<>>) =>
               Summary(sq.out, sq.q, Survivors(sq.q))

\* A summary record was returned that counts the one row LIMIT left of the
\* several that WHERE kept
C16_LimitBeforeCount ==
    /\ AggregateDone
    /\ sq.q.limit = <<1>> /\ sq.q.having = <<>>
    /\ Len(Survivors(sq.q)) > 1
    /\ \E a \in DOMAIN sq.out[1] : sq.out[1][a] = PyInt(1) /\ a # Col.id

\* C17: after any sequence of operator calls and queries, ended or failed,
\* every table of the registry holds the records it was loaded with, with the
\* same values in the same order, and a query issued again ends as it ended the
\* first time, with the same result.
C17_TablesReadOnly ==
    /\ \A n \in Tables :
         /\ tqs[DbAttr[n].q] = DbAttr[n].q
         /\ lists[DbAttr[n].q] = Registry[DbAttr[n].q]
    /\ (sq.pc \in {"done", "failed"} /\ sq.prev.pc # "none") =>
         /\ sq.pc = sq.prev.pc
         /\ sq.out = sq.prev.out
         /\ sq.err = sq.prev.err /\ sq.at = sq.prev.at

\* A query with ORDER BY on all the rows of a table was issued again, and both
\* times returned the rows in another order than the table holds them
C17_IssuedAgain ==
    /\ sq.pc = "done"
    /\ sq.prev.pc = "done"
    /\ sq.q.order # <<>> /\ sq.q.group = <<>> /\ sq.q.where = <<>> /\ sq.q.having = <<>>
    /\ sq.q.limit = <<>> /\ sq.q.select = << <<"*">> >>
    /\ sq.out # Load(sq.q.from).rows

\* C19: in a grouped query of two or more groups, ORDER BY on a column that is
\* no field of the group records reorders nothing and raises nothing, ASC or
\* DESC: after ORDER BY the groups are in the order in which their keys first
\* occur in the rows that WHERE kept.
C19_GroupsKeepFirstOccurrence ==
    /\ (sq.pc = "failed" /\ sq.grouped) => sq.at # "order"
    /\ (/\ sq.pc = "limit" /\ sq.grouped /\ sq.q.order # <<>>
        /\ Len(sq.table.rows) >= 2
        /\ \A k \in 1..Len(sq.table.rows) : sq.q.order[1].col \notin DOMAIN sq.table.rows[k]) =>
          LET src == Survivors(sq.q)
              key(i) == KeyOf(src[i], sq.q.group)
              firsts == {i \in 1..Len(src) : \A j \in 1..(i - 1) : ~KeyEq(key(j), key(i))}
              \* where the key of the k-th group first occurs
              at(k) == {i \in firsts : KeyEq(key(i), sq.table.rows[k][Col.GroupKey].l)}
          IN /\ \A k \in 1..Len(sq.table.rows) : Cardinality(at(k)) = 1
             /\ \A k, m \in 1..Len(sq.table.rows) :
                  k < m => \A i \in at(k), j \in at(m) : i < j
             /\ sq.q.having = <<>> => Len(sq.table.rows) = Cardinality(firsts)

\* ORDER BY id DESC ran on three groups whose keys are in neither order
C19_UnsortedGroups ==
    /\ sq.pc = "limit" /\ sq.grouped
    /\ sq.q.order = <<[col |-> Col.id, desc |-> TRUE]>>
    /\ Len(sq.table.rows) >= 3
    /\ sq.table.rows[1][Col.GroupKey].l[1].n > sq.table.rows[2][Col.GroupKey].l[1].n
    /\ sq.table.rows[2][Col.GroupKey].l[1].n < sq.table.rows[3][Col.GroupKey].l[1].n

====
